---- MODULE Spec2Model ----
(***************************************************************************)
(* Model of the Lokalise backend proxy: the credential and scope resolver  *)
(* (middleware/auth.ts), the upstream client's translation aggregation     *)
(* (lokalise-client.ts) and the two handlers that call the aggregation     *)
(* (routes/translations.ts, routes/keys.ts).                               *)
(*                                                                         *)
(* JavaScript values are records tagged by type: Undefined, Null,          *)
(* Str(chars) with chars a sequence of one-character strings, Arr(seq).    *)
(* The || operator of the source is Or, its truthiness test is Truthy.     *)
(***************************************************************************)
EXTENDS Integers, Sequences, FiniteSets, TLC

VARIABLES env, req, pc, res, sent, ran, upstreamLog, aggIn, aggOut,
          codecIn, codecOut,
          clientToken, op, calls, wire, opResult, httpRes,
          slots, slotWire, srvIn, srvOut, valIn, valOut, uploadIn, uploadOut

vars == <<env, req, pc, res, sent, ran, upstreamLog, aggIn, aggOut,
          codecIn, codecOut,
          clientToken, op, calls, wire, opResult, httpRes,
          slots, slotWire, srvIn, srvOut, valIn, valOut, uploadIn, uploadOut>>

chainVars == <<env, req, pc, res, sent, ran, upstreamLog>>

aggVars == <<aggIn, aggOut>>

codecVars == <<codecIn, codecOut>>

clientVars == <<clientToken, op, calls, wire, opResult, httpRes>>

pairVars == <<slots, slotWire>>

serverVars == <<srvIn, srvOut>>

validatorVars == <<valIn, valOut>>

uploadVars == <<uploadIn, uploadOut>>

otherVars == <<codecVars, clientVars, pairVars, serverVars, validatorVars, uploadVars>>

----------------------------------------------------------------------------
(* JavaScript values *)

Undefined == [t |-> "undefined"]

Null == [t |-> "null"]

Str(s) == [t |-> "string", v |-> s]

Arr(a) == [t |-> "array", v |-> a]

\* JavaScript truthiness: undefined, null and "" are falsy; arrays are truthy.
Truthy(x) ==
  CASE x.t = "undefined" -> FALSE
    [] x.t = "null" -> FALSE
    [] x.t = "string" -> Len(x.v) > 0
    [] OTHER -> TRUE

\* a || b
Or(a, b) == IF Truthy(a) THEN a ELSE b

\* s.startsWith(p)
StartsWith(s, p) == Len(s) >= Len(p) /\ SubSeq(s, 1, Len(p)) = p

\* s.slice(n)
Slice(s, n) == SubSeq(s, n + 1, Len(s))

Range(s) == {s[i] : i \in DOMAIN s}

\* the object literal {}
EmptyObject == [k \in {} |-> k]

----------------------------------------------------------------------------
(* Inputs *)

BearerPrefix == <<"B", "e", "a", "r", "e", "r", " ">>

T1 == <<"t", "1">>
T2 == <<"t", "2">>
T3 == <<"t", "3">>
T4 == <<"t", "4">>
T5 == <<"t", "5">>

P1 == <<"p", "1">>
P2 == <<"p", "2">>
P3 == <<"p", "3">>
P4 == <<"p", "4">>
P5 == <<"p", "5">>

FR == <<"f", "r">>
DE == <<"d", "e">>
ES == <<"e", "s">>

\* Authorization header: absent, a Bearer token, 'Bearer ' with an empty
\* token, a raw token without the Bearer prefix.
AuthorizationValues ==
  {Undefined, Str(BearerPrefix \o T1), Str(BearerPrefix), Str(T5)}

XApiTokenValues == {Undefined, Str(<<>>), Str(T2)}

LokaliseApiTokenValues == {Undefined, Str(T3)}

EnvTokenValues == {Undefined, Str(T4)}

EnvProjectValues == {Undefined, Str(P5)}

Routes == {"fetch", "withTranslations"}

NewRequest(r, a, x, l, pp, bp, qp, qk, tl, ql) ==
  [route |-> r,
   headers |-> [authorization |-> a, xApiToken |-> x, lokaliseApiToken |-> l],
   params |-> [projectId |-> pp],
   body |-> [projectId |-> bp, targetLocales |-> tl],
   query |-> [projectId |-> qp, projektId |-> qk, locales |-> ql],
   lokaliseClient |-> Undefined,
   projektId |-> Undefined]

\* The requests a client can send.  The middleware is written for any route,
\* so the path parameter may be absent.  POST fetch carries its locales in the
\* body (absent, an empty list, a string that is not a list, a list), GET
\* with-translations in the query string.
Requests ==
  { NewRequest(r, a, x, l, pp, bp, qp, qk,
               IF r = "fetch" THEN loc[1] ELSE Undefined,
               IF r = "fetch" THEN Undefined ELSE loc[2]) :
      r \in Routes,
      a \in AuthorizationValues, x \in XApiTokenValues,
      l \in LokaliseApiTokenValues,
      pp \in {Undefined, Str(P1)}, bp \in {Undefined, Str(P2)},
      qp \in {Undefined, Str(P3)}, qk \in {Undefined, Str(P4)},
      loc \in { <<Undefined, Undefined>>, <<Arr(<<>>), Str(<<>>)>>,
                <<Str(FR), Undefined>>,
                <<Arr(<<FR>>), Str(FR)>>,
                <<Arr(<<FR, DE>>), Str(FR \o <<",">> \o DE)>> } }

NoRequest == [route |-> "none"]

NoResponse == [status |-> 0]

Now == "timestamp"

----------------------------------------------------------------------------
(* middleware/auth.ts *)

\* new LokaliseClient(apiToken)
LokaliseClient(apiToken) == [t |-> "client", apiToken |-> apiToken]

\* The other copy of the middleware reads the vendor headers before the
\* Authorization header.
ResolveApiTokenHeadersFirst(r, e) ==
  LET authHeader == r.headers.authorization
      bearer == IF Truthy(authHeader) /\ StartsWith(authHeader.v, BearerPrefix)
                THEN Str(Slice(authHeader.v, 7)) ELSE Null
  IN Or(Or(Or(r.headers.xApiToken, r.headers.lokaliseApiToken), bearer),
        e.LOKALISE_API_TOKEN)

\* A variant that accepts an Authorization header of any scheme as the token.
ResolveApiTokenAnyScheme(r, e) ==
  LET authHeader == r.headers.authorization
      bearer == IF Truthy(authHeader) /\ StartsWith(authHeader.v, BearerPrefix)
                THEN Str(Slice(authHeader.v, 7)) ELSE authHeader
  IN Or(Or(Or(bearer, r.headers.xApiToken), r.headers.lokaliseApiToken),
        e.LOKALISE_API_TOKEN)

\* const apiToken = (authHeader && authHeader.startsWith('Bearer ') ?
\*   authHeader.slice(7) : null) || x-api-token || lokalise-api-token || env
ResolveApiToken(r, e) ==
  LET authHeader == r.headers.authorization
      bearer == IF Truthy(authHeader) /\ StartsWith(authHeader.v, BearerPrefix)
                THEN Str(Slice(authHeader.v, 7)) ELSE Null
  IN Or(Or(Or(bearer, r.headers.xApiToken), r.headers.lokaliseApiToken),
        e.LOKALISE_API_TOKEN)

\* validateLokaliseToken: params || body || query.projectId || env
AttachProjectId(r, e) ==
  Or(Or(Or(r.params.projectId, r.body.projectId), r.query.projectId),
     e.LOKALISE_PROJECT_ID)

MissingTokenResponse ==
  [status |-> 401,
   body |-> [success |-> FALSE,
             error |-> [message |-> "Missing Lokalise API token. Provide via Authorization header, X-Api-Token header, or Lokalise-Api-Token header.",
                        details |-> "Builder.io plugin should send: Authorization: Bearer {your-lokalise-token}",
                        timestamp |-> Now]]]

\* A variant that reads the request body before the path parameter.
ResolveProjectIdBodyFirst(r, e) ==
  Or(Or(Or(Or(r.body.projectId, r.params.projectId), r.query.projektId),
        r.projektId),
     e.LOKALISE_PROJECT_ID)

\* requireProjectId: params || body || query.projektId || req.projektId || env
ResolveProjectId(r, e) ==
  Or(Or(Or(Or(r.params.projectId, r.body.projectId), r.query.projektId),
        r.projektId),
     e.LOKALISE_PROJECT_ID)

MissingProjectIdMessage ==
  "Project ID is required. Provide via URL parameter, request body, or query parameter."

MissingProjectIdDetails ==
  "Frontend plugin should call: /api/projects/{projectId} or include projectId in request body"

\* A variant whose error does not mention the query string.
MissingProjectIdResponseNoQuery ==
  [status |-> 400,
   body |-> [success |-> FALSE,
             error |-> [message |-> MissingProjectIdMessage,
                        details |-> MissingProjectIdDetails,
                        expectedFormats |->
                          << [location |-> "URL", format |-> "/api/projects/{projectId}"],
                             [location |-> "Body", format |-> "{ \"projectId\": \"your-project-id\" }"] >>,
                        timestamp |-> Now]]]

\* The expectedFormats entries 'URL: ...', 'Body: ...', 'Query: ...' are kept
\* as (location, format) pairs.
MissingProjectIdResponse ==
  [status |-> 400,
   body |-> [success |-> FALSE,
             error |-> [message |-> MissingProjectIdMessage,
                        details |-> MissingProjectIdDetails,
                        expectedFormats |->
                          << [location |-> "URL", format |-> "/api/projects/{projectId}"],
                             [location |-> "Body", format |-> "{ \"projectId\": \"your-project-id\" }"],
                             [location |-> "Query", format |-> "?projektId=your-project-id"] >>,
                        timestamp |-> Now]]]

\* validateGetTranslations: params || body || query.projectId
ValidatorProjectId(r) ==
  Or(Or(r.params.projectId, r.body.projectId), r.query.projectId)

ValidatorMissingProjectResponse ==
  [status |-> 400,
   body |-> [error |-> [message |-> "Project ID is required", timestamp |-> Now]]]

ValidatorMissingLocalesResponse ==
  [status |-> 400,
   body |-> [error |-> [message |-> "Target locales array is required and must contain at least one locale",
                        timestamp |-> Now]]]

\* A variant that rejects a missing targetLocales only.
LocalesRejectedMissingOnly(tl) == ~Truthy(tl)

\* !targetLocales || !Array.isArray(targetLocales) || targetLocales.length === 0
LocalesRejected(tl) == ~Truthy(tl) \/ tl.t # "array" \/ Len(tl.v) = 0

----------------------------------------------------------------------------
(* lokalise-client.ts *)

\* LokaliseClient.request: one upstream round trip.  It throws when the
\* response is not ok and returns the parsed body otherwise.
request(outcome) ==
  IF outcome.ok
  THEN [threw |-> FALSE, value |-> outcome.body]
  ELSE [threw |-> TRUE, status |-> outcome.status]

\* obj[k] = v
Put(obj, k, v) ==
  [x \in (DOMAIN obj) \cup {k} |-> IF x = k THEN v ELSE obj[x]]

UndefinedName == <<"u", "n", "d", "e", "f", "i", "n", "e", "d">>

\* A variant that uses key.key_name as the property key without reducing a
\* mapping: an object then reads '[object Object]'.
KeyNameNoReduce(key) ==
  IF key.key_name.t = "object"
  THEN <<"[", "o", "b", "j", "e", "c", "t", " ", "O", "b", "j", "e", "c", "t", "]">>
  ELSE key.key_name.v

\* typeof key.key_name === 'object' ? Object.values(key.key_name)[0]
\*                                   : key.key_name
\* An undefined name becomes the property key 'undefined'.
KeyName(key) ==
  IF key.key_name.t = "object"
  THEN IF Len(key.key_name.v) > 0 THEN key.key_name.v[1].name ELSE UndefinedName
  ELSE key.key_name.v

RECURSIVE InitLocales(_, _, _)
\* targetLocales.forEach(locale => { translationsByLocale[locale] = {} })
InitLocales(byLocale, targetLocales, i) ==
  IF i > Len(targetLocales) THEN byLocale
  ELSE InitLocales(Put(byLocale, targetLocales[i], EmptyObject), targetLocales, i + 1)

\* A variant of the inner loop that keeps the first text stored for a name.
AddTranslationFirstWins(byLocale, targetLocales, keyName, translation) ==
  LET locale == translation.language_iso
      translationText == translation.translation
  IN IF locale \in Range(targetLocales) /\ Len(translationText) > 0
        /\ keyName \notin DOMAIN byLocale[locale]
     THEN Put(byLocale, locale, Put(byLocale[locale], keyName, translationText))
     ELSE byLocale

\* A variant of the inner loop that does not test the text.
AddTranslationNoTextTest(byLocale, targetLocales, keyName, translation) ==
  LET locale == translation.language_iso
      translationText == translation.translation
  IN IF locale \in Range(targetLocales)
     THEN Put(byLocale, locale, Put(byLocale[locale], keyName, translationText))
     ELSE byLocale

\* A variant of the inner loop that does not test the locale.
AddTranslationAnyLocale(byLocale, targetLocales, keyName, translation) ==
  LET locale == translation.language_iso
      translationText == translation.translation
  IN IF Len(translationText) > 0
     THEN Put(byLocale, locale,
              Put(IF locale \in DOMAIN byLocale THEN byLocale[locale] ELSE EmptyObject,
                  keyName, translationText))
     ELSE byLocale

\* if (targetLocales.includes(locale) && translationText)
\*   translationsByLocale[locale][keyName] = translationText
AddTranslation(byLocale, targetLocales, keyName, translation) ==
  LET locale == translation.language_iso
      translationText == translation.translation
  IN IF locale \in Range(targetLocales) /\ Len(translationText) > 0
     THEN Put(byLocale, locale, Put(byLocale[locale], keyName, translationText))
     ELSE byLocale

RECURSIVE ProcessTranslations(_, _, _, _, _)
\* key.translations.forEach(translation => ...)
ProcessTranslations(byLocale, targetLocales, keyName, translations, i) ==
  IF i > Len(translations) THEN byLocale
  ELSE ProcessTranslations(
         AddTranslation(byLocale, targetLocales, keyName, translations[i]),
         targetLocales, keyName, translations, i + 1)

RECURSIVE ProcessKeys(_, _, _, _)
\* keysResponse.keys.forEach(key => ...)
ProcessKeys(byLocale, targetLocales, keys, i) ==
  IF i > Len(keys) THEN byLocale
  ELSE LET key == keys[i]
           next == IF Truthy(key.translations) /\ key.translations.t = "array"
                   THEN ProcessTranslations(byLocale, targetLocales,
                                            KeyName(key), key.translations.v, 1)
                   ELSE byLocale
       IN ProcessKeys(next, targetLocales, keys, i + 1)

\* const translationsByLocale = {}; targetLocales.forEach(...)
StartMap(targetLocales) == InitLocales(EmptyObject, targetLocales, 1)

\* A variant whose emptiness test is off by one (keys.length <= 1).
getTranslationsFromKeysOffByOne(targetLocales, outcome) ==
  LET keysResponse == request(outcome)
  IN IF keysResponse.threw
     THEN [threw |-> FALSE, value |-> EmptyObject]
     ELSE IF ~Truthy(keysResponse.value.keys) \/ Len(keysResponse.value.keys.v) <= 1
     THEN [threw |-> FALSE, value |-> EmptyObject]
     ELSE [threw |-> FALSE,
           value |-> ProcessKeys(StartMap(targetLocales), targetLocales,
                                 keysResponse.value.keys.v, 1)]

\* A translation whose text is not a string: the text is kept in its printed
\* form and typeof names its type.
TextIsString(translation) == "typeof" \notin DOMAIN translation

\* Processing the translation throws a TypeError: it is null, or its text is
\* stored and then translationText.substring is not a function.
TranslationThrows(translation, targetLocales) ==
  \/ translation = Null
  \/ /\ translation # Null
     /\ translation.language_iso \in Range(targetLocales)
     /\ Len(translation.translation) > 0
     /\ ~ TextIsString(translation)

\* Processing the key record throws a TypeError: the record is null, its
\* key_name is null (typeof null is 'object' and Object.values(null) throws),
\* or one of its translations throws.
KeyThrows(key, targetLocales) ==
  \/ key = Null
  \/ /\ key # Null
     /\ \/ key.key_name = Null
        \/ /\ Truthy(key.translations)
           /\ key.translations.t = "array"
           /\ \E j \in DOMAIN key.translations.v :
                TranslationThrows(key.translations.v[j], targetLocales)

\* What the loop has stored of a throwing key when the exception leaves it.
PartialOfKey(byLocale, targetLocales, key) ==
  IF key = Null THEN byLocale
  ELSE IF key.key_name = Null THEN byLocale
  ELSE LET translations == key.translations.v
           j == CHOOSE n \in DOMAIN translations :
                  /\ TranslationThrows(translations[n], targetLocales)
                  /\ \A x \in 1..(n - 1) :
                       ~ TranslationThrows(translations[x], targetLocales)
           stored == IF translations[j] = Null THEN j - 1 ELSE j
       IN ProcessTranslations(byLocale, targetLocales, KeyName(key),
                              SubSeq(translations, 1, stored), 1)

\* translationsByLocale at the moment the exception leaves the loop over
\* the keys.
PartialMap(targetLocales, keys) ==
  LET i == CHOOSE n \in DOMAIN keys :
             /\ KeyThrows(keys[n], targetLocales)
             /\ \A x \in 1..(n - 1) : ~ KeyThrows(keys[x], targetLocales)
  IN PartialOfKey(ProcessKeys(StartMap(targetLocales), targetLocales,
                              SubSeq(keys, 1, i - 1), 1),
                  targetLocales, keys[i])

\* keysResponse.keys.length === 0
LengthZero(keys) == keys.t \in {"array", "string"} /\ Len(keys.v) = 0

\* The body of the try block of getTranslationsFromKeys: what it returns, or
\* that it threw, and the map built by then.
getTranslationsFromKeysTry(targetLocales, outcome) ==
  LET keysResponse == request(outcome)
  IN IF keysResponse.threw
     THEN [threw |-> TRUE, value |-> EmptyObject]
     ELSE IF keysResponse.value = Null                     \* null.keys
     THEN [threw |-> TRUE, value |-> EmptyObject]
     ELSE LET keys == keysResponse.value.keys
          IN IF ~Truthy(keys) \/ LengthZero(keys)
             THEN [threw |-> FALSE, value |-> EmptyObject]         \* return {}
             ELSE IF keys.t # "array"                      \* keys.forEach
             THEN [threw |-> TRUE, value |-> StartMap(targetLocales)]
             ELSE IF \E i \in DOMAIN keys.v : KeyThrows(keys.v[i], targetLocales)
             THEN [threw |-> TRUE, value |-> PartialMap(targetLocales, keys.v)]
             ELSE [threw |-> FALSE,
                   value |-> ProcessKeys(StartMap(targetLocales), targetLocales,
                                         keys.v, 1)]

\* A variant without the catch: an exception of the try block leaves the
\* operation.
getTranslationsFromKeysNoCatch(targetLocales, outcome) ==
  getTranslationsFromKeysTry(targetLocales, outcome)

\* getTranslationsFromKeys(projectId, targetLocales), given the outcome of its
\* one upstream call.  The result says whether the operation threw and what it
\* returned.
getTranslationsFromKeys(targetLocales, outcome) ==
  LET attempt == getTranslationsFromKeysTry(targetLocales, outcome)
  IN IF attempt.threw
     THEN [threw |-> FALSE, value |-> EmptyObject]         \* catch: return {}
     ELSE attempt

----------------------------------------------------------------------------
(* lokalise-client.ts, uploadFile: the payload normalization *)

\* data.data.length > 100
Threshold == 100

Base64Alphabet ==
  << "A", "B", "C", "D", "E", "F", "G", "H", "I", "J", "K", "L", "M",
     "N", "O", "P", "Q", "R", "S", "T", "U", "V", "W", "X", "Y", "Z",
     "a", "b", "c", "d", "e", "f", "g", "h", "i", "j", "k", "l", "m",
     "n", "o", "p", "q", "r", "s", "t", "u", "v", "w", "x", "y", "z",
     "0", "1", "2", "3", "4", "5", "6", "7", "8", "9", "+", "/" >>

Base64Chars == Range(Base64Alphabet)

Base64Index(c) == (CHOOSE i \in DOMAIN Base64Alphabet : Base64Alphabet[i] = c) - 1

\* The UTF-8 bytes of one character.
Utf8Char(c) ==
  CASE c \in Base64Chars ->
         LET i == Base64Index(c)
         IN IF i < 26 THEN <<65 + i>>
            ELSE IF i < 52 THEN <<97 + (i - 26)>>
            ELSE IF i < 62 THEN <<48 + (i - 52)>>
            ELSE IF i = 62 THEN <<43>> ELSE <<47>>
    [] c = "=" -> <<61>>
    [] c = "{" -> <<123>>
    [] c = "}" -> <<125>>
    [] c = "\"" -> <<34>>
    [] c = ":" -> <<58>>
    [] c = " " -> <<32>>
    [] c = "-" -> <<45>>
    [] c = "\n" -> <<10>>
    [] c = "é" -> <<195, 169>>

RECURSIVE Utf8Between(_, _, _)
\* The UTF-8 bytes of characters lo..hi of s.
Utf8Between(s, lo, hi) ==
  IF lo > hi THEN <<>>
  ELSE IF lo = hi THEN Utf8Char(s[lo])
  ELSE LET mid == (lo + hi) \div 2
       IN Utf8Between(s, lo, mid) \o Utf8Between(s, mid + 1, hi)

\* Buffer.from(s, 'utf8')
Utf8(s) == Utf8Between(s, 1, Len(s))

\* Character k of buffer.toString('base64'): every three bytes give four
\* characters of six bits each; a last group of one or two bytes is padded
\* with '='.
ToBase64Char(b, k) ==
  LET g == (k - 1) \div 4
      pos == (k - 1) % 4
      byte(i) == IF i <= Len(b) THEN b[i] ELSE 0
      n == byte(3 * g + 1) * 65536 + byte(3 * g + 2) * 256 + byte(3 * g + 3)
      sextet == CASE pos = 0 -> n \div 262144
                  [] pos = 1 -> (n \div 4096) % 64
                  [] pos = 2 -> (n \div 64) % 64
                  [] pos = 3 -> n % 64
  IN IF pos = 2 /\ 3 * g + 2 > Len(b) THEN "="
     ELSE IF pos = 3 /\ 3 * g + 3 > Len(b) THEN "="
     ELSE Base64Alphabet[sextet + 1]

\* buffer.toString('base64')
ToBase64(b) == [k \in 1 .. 4 * ((Len(b) + 2) \div 3) |-> ToBase64Char(b, k)]

\* One step of the automaton of /^[A-Za-z0-9+/]+=*$/: one or more
\* alphabet characters, then '=' characters only.
RegexStep(state, c) ==
  IF c \in Base64Chars /\ state \in {"start", "body"} THEN "body"
  ELSE IF c = "=" /\ state \in {"body", "pad"} THEN "pad"
  ELSE "fail"

RegexStates == {"start", "body", "pad", "fail"}

RECURSIVE RegexRun(_, _, _)
\* The automaton's state after reading characters lo..hi of s, as a
\* function of its state before them.
RegexRun(s, lo, hi) ==
  IF lo > hi THEN [state \in RegexStates |-> state]
  ELSE IF lo = hi THEN [state \in RegexStates |-> RegexStep(state, s[lo])]
  ELSE LET mid == (lo + hi) \div 2
           left == RegexRun(s, lo, mid)
           right == RegexRun(s, mid + 1, hi)
       IN [state \in RegexStates |-> right[left[state]]]

\* /^[A-Za-z0-9+/]+=*$/.test(s)
LooksEncodedRegex(s) == RegexRun(s, 1, Len(s))["start"] \in {"body", "pad"}

\* A variant of the test whose length condition is >= 100.
LooksEncodedInclusive(s) == Len(s) >= Threshold /\ LooksEncodedRegex(s)

\* typeof data.data === 'string' && data.data.length > 100 &&
\*   /^[A-Za-z0-9+/]+=*$/.test(data.data)
LooksEncoded(s) == Len(s) > Threshold /\ LooksEncodedRegex(s)

\* base64Data of uploadFile
Normalize(s) == IF LooksEncoded(s) THEN s ELSE ToBase64(Utf8(s))

----------------------------------------------------------------------------
(* routes/translations.ts and routes/keys.ts *)

RECURSIVE Split(_)
\* s.split(',')
Split(s) ==
  IF \E i \in DOMAIN s : s[i] = ","
  THEN LET i == CHOOSE j \in DOMAIN s :
                  s[j] = "," /\ \A k \in 1..(j - 1) : s[k] # ","
       IN <<SubSeq(s, 1, i - 1)>> \o Split(SubSeq(s, i + 1, Len(s)))
  ELSE <<s>>

\* POST fetch: const { targetLocales } = req.body
\* GET with-translations: req.query.locales ? locales.split(',') : []
HandlerLocales(r) ==
  IF r.route = "fetch" THEN r.body.targetLocales.v
  ELSE IF Truthy(r.query.locales) THEN Split(r.query.locales.v) ELSE <<>>

HandlerMissingLocalesResponse ==
  [status |-> 400,
   body |-> [error |-> [message |-> "Target locales are required. Provide as comma-separated query parameter: ?locales=en,fr,de",
                        timestamp |-> Now]]]

\* Object.entries(result).reduce(...): the number of entries of each locale
TranslationCounts(result) ==
  [l \in DOMAIN result |-> Cardinality(DOMAIN result[l])]

\* res.json({ success: true, data: result, ... })
HandlerSuccessResponse(r, result) ==
  IF r.route = "fetch"
  THEN [status |-> 200,
        body |-> [success |-> TRUE, data |-> result,
                  counts |-> TranslationCounts(result),
                  targetLocales |-> HandlerLocales(r), timestamp |-> Now]]
  ELSE [status |-> 200,
        body |-> [success |-> TRUE, data |-> result,
                  targetLocales |-> HandlerLocales(r), timestamp |-> Now]]

\* catch (error) { res.status(500).json({ error: { message, timestamp } }) }
HandlerErrorResponse ==
  [status |-> 500,
   body |-> [error |-> [message |-> "error.message", timestamp |-> Now]]]

----------------------------------------------------------------------------
(* Upstream responses *)

KA == <<"a">>
KB == <<"b">>
X == <<"x">>
Y == <<"y">>

Translation(locale, text) == [language_iso |-> locale, translation |-> text]

Key(name, translations) == [key_name |-> name, translations |-> translations]

PlatformName(platform, name) ==
  [t |-> "object", v |-> << [platform |-> platform, name |-> name] >>]

Failure(status) == [ok |-> FALSE, status |-> status, body |-> [keys |-> Undefined]]

Success(keys) == [ok |-> TRUE, status |-> 200, body |-> [keys |-> keys]]

NoOutcome == [ok |-> FALSE, status |-> 0, body |-> [keys |-> Undefined]]

\* The upstream answers the handlers of the chain can receive.
ChainOutcomes ==
  { Failure(500), Failure(404), Success(Undefined), Success(Arr(<<>>)),
    Success(Arr(<< Key(Str(KA), Arr(<<Translation(FR, X)>>)) >>)),
    Success(Arr(<< Key(Str(KA), Arr(<<Translation(ES, X)>>)) >>)) }

\* The largest number of keys in an upstream answer of the aggregation.
MaxKeys == 2

KeyNames == {Str(KA), Str(KB), PlatformName("web", KA)}

\* The translations arrays a key can carry: missing, empty, one text, an
\* empty text, an unrequested locale, two texts for one locale, two locales,
\* an empty text after a text.
TranslationLists ==
  { Undefined, Arr(<<>>),
    Arr(<<Translation(FR, X)>>), Arr(<<Translation(FR, Y)>>),
    Arr(<<Translation(FR, <<>>)>>), Arr(<<Translation(ES, X)>>),
    Arr(<<Translation(FR, X), Translation(FR, Y)>>),
    Arr(<<Translation(FR, X), Translation(DE, Y)>>),
    Arr(<<Translation(FR, X), Translation(FR, <<>>)>>) }

UpstreamKeys == {Key(n, t) : n \in KeyNames, t \in TranslationLists}

SeqsUpTo(S, n) == UNION {[1..k -> S] : k \in 0..n}

AggOutcomes ==
  {Failure(500), Success(Undefined)}
    \cup {Success(Arr(ks)) : ks \in SeqsUpTo(UpstreamKeys, MaxKeys)}

AggInputs ==
  [targetLocales : {<<FR>>, <<FR, DE>>}, outcome : AggOutcomes]

NotCalled == [called |-> FALSE, threw |-> FALSE, value |-> EmptyObject]

NoAggInput == [targetLocales |-> <<>>, outcome |-> NoOutcome]

----------------------------------------------------------------------------
(* The request chain: one request at a time, from arrival to response *)

NoEnv == [LOKALISE_API_TOKEN |-> Undefined, LOKALISE_PROJECT_ID |-> Undefined]

\* The value of an input or output variable that is not in use.
Unused == [t |-> "unused"]

\* No pair of requests, no error handling, no validation and no upload is
\* under way.
RestIdle ==
  /\ slots = <<>>
  /\ slotWire = <<>>
  /\ srvIn = Unused
  /\ srvOut = Unused
  /\ valIn = Unused
  /\ valOut = Unused
  /\ uploadIn = Unused
  /\ uploadOut = Unused

\* No client operation is under way.
ClientIdle ==
  /\ clientToken = Undefined
  /\ op = "none"
  /\ calls = <<>>
  /\ wire = <<>>
  /\ opResult = [state |-> "pending"]
  /\ httpRes = NoResponse

Init ==
  /\ env \in [LOKALISE_API_TOKEN : EnvTokenValues,
              LOKALISE_PROJECT_ID : EnvProjectValues]
  /\ req = NoRequest
  /\ pc = "idle"
  /\ res = NoResponse
  /\ sent = 0
  /\ ran = {}
  /\ upstreamLog = <<>>
  /\ aggIn = NoAggInput
  /\ aggOut = NotCalled
  /\ codecIn = <<>>
  /\ codecOut = <<>>
  /\ ClientIdle
  /\ RestIdle

\* The stage control passes to when a stage calls next(); the handler goes
\* on to its await.
NextStage(stage, r) ==
  CASE stage = "validateLokaliseToken" -> "requireProjectId"
    [] stage = "requireProjectId" ->
         IF r.route = "fetch" THEN "validateGetTranslations" ELSE "handler"
    [] stage = "validateGetTranslations" -> "handler"
    [] stage = "handler" -> "awaitUpstream"

\* A variant of a stage without the return in front of its response: the
\* stage goes on to next().
StopFallsThrough(stage, r) == NextStage(stage, r)

\* return res.status(...).json(...): the stage is left and nothing more of
\* the chain runs.
Stop(stage, r) == "done"

\* res.status(...).json(...) or res.json(...): one response is sent.
Send(response) ==
  /\ res' = response
  /\ sent' = sent + 1

Receive ==
  /\ pc = "idle"
  /\ \E r \in Requests : req' = r
  /\ pc' = "validateLokaliseToken"
  /\ UNCHANGED <<env, res, sent, ran, upstreamLog, aggVars, otherVars>>

ValidateLokaliseToken ==
  /\ pc = "validateLokaliseToken"
  /\ ran' = ran \cup {"validateLokaliseToken"}
  /\ LET apiToken == ResolveApiToken(req, env)
         projectId == AttachProjectId(req, env)
     IN IF ~Truthy(apiToken)
        THEN /\ Send(MissingTokenResponse)
             /\ pc' = Stop("validateLokaliseToken", req)
             /\ UNCHANGED req
        ELSE /\ req' = [req EXCEPT
                          !.lokaliseClient = LokaliseClient(apiToken.v),
                          !.projektId = IF Truthy(projectId) THEN projectId ELSE @]
             /\ pc' = NextStage("validateLokaliseToken", req)
             /\ UNCHANGED <<res, sent>>
  /\ UNCHANGED <<env, upstreamLog, aggVars, otherVars>>

RequireProjectId ==
  /\ pc = "requireProjectId"
  /\ ran' = ran \cup {"requireProjectId"}
  /\ LET projectId == ResolveProjectId(req, env)
     IN IF ~Truthy(projectId)
        THEN /\ Send(MissingProjectIdResponse)
             /\ pc' = Stop("requireProjectId", req)
             /\ UNCHANGED req
        ELSE /\ req' = [req EXCEPT !.projektId = projectId]
             /\ pc' = NextStage("requireProjectId", req)
             /\ UNCHANGED <<res, sent>>
  /\ UNCHANGED <<env, upstreamLog, aggVars, otherVars>>

ValidateGetTranslations ==
  /\ pc = "validateGetTranslations"
  /\ ran' = ran \cup {"validateGetTranslations"}
  /\ IF ~Truthy(ValidatorProjectId(req))
     THEN /\ Send(ValidatorMissingProjectResponse)
          /\ pc' = Stop("validateGetTranslations", req)
     ELSE IF LocalesRejected(req.body.targetLocales)
     THEN /\ Send(ValidatorMissingLocalesResponse)
          /\ pc' = Stop("validateGetTranslations", req)
     ELSE /\ pc' = NextStage("validateGetTranslations", req)
          /\ UNCHANGED <<res, sent>>
  /\ UNCHANGED <<env, req, upstreamLog, aggVars, otherVars>>

\* The handler up to its await: it answers 400 itself when the GET route has
\* no locales, and otherwise issues the one upstream call of
\* getTranslationsFromKeys.
Handler ==
  /\ pc = "handler"
  /\ ran' = ran \cup {"handler"}
  /\ IF Len(HandlerLocales(req)) = 0
     THEN /\ Send(HandlerMissingLocalesResponse)
          /\ pc' = Stop("handler", req)
          /\ UNCHANGED upstreamLog
     ELSE /\ upstreamLog' =
               Append(upstreamLog,
                      [token |-> req.lokaliseClient.apiToken,
                       projectId |-> req.projektId.v,
                       resource |-> "keys?include_translations=1&limit=5000",
                       outcome |-> NoOutcome])
          /\ pc' = NextStage("handler", req)
          /\ UNCHANGED <<res, sent>>
  /\ UNCHANGED <<env, req, aggVars, otherVars>>

\* The upstream answer arrives; getTranslationsFromKeys returns and the
\* handler sends its response, from the try block or from the catch.
UpstreamResponds ==
  /\ pc = "awaitUpstream"
  /\ \E o \in ChainOutcomes :
       LET result == getTranslationsFromKeys(HandlerLocales(req), o)
       IN /\ upstreamLog' = [upstreamLog EXCEPT ![Len(upstreamLog)].outcome = o]
          /\ Send(IF result.threw THEN HandlerErrorResponse
                  ELSE HandlerSuccessResponse(req, result.value))
  /\ pc' = "done"
  /\ UNCHANGED <<env, req, ran, aggVars, otherVars>>

\* The request object is dropped once its response is sent.
Complete ==
  /\ pc = "done"
  /\ pc' = "idle"
  /\ req' = NoRequest
  /\ res' = NoResponse
  /\ sent' = 0
  /\ ran' = {}
  /\ upstreamLog' = <<>>
  /\ UNCHANGED <<env, aggVars, otherVars>>

Next ==
  \/ Receive
  \/ ValidateLokaliseToken
  \/ RequireProjectId
  \/ ValidateGetTranslations
  \/ Handler
  \/ UpstreamResponds
  \/ Complete

Spec == Init /\ [][Next]_vars

----------------------------------------------------------------------------
(* The aggregation alone: getTranslationsFromKeys applied to one upstream
   answer *)

InitAgg ==
  /\ env = NoEnv
  /\ req = NoRequest
  /\ pc = "idle"
  /\ res = NoResponse
  /\ sent = 0
  /\ ran = {}
  /\ upstreamLog = <<>>
  /\ aggIn \in AggInputs
  /\ aggOut = NotCalled
  /\ codecIn = <<>>
  /\ codecOut = <<>>
  /\ ClientIdle
  /\ RestIdle

AggCall ==
  /\ ~aggOut.called
  /\ LET result == getTranslationsFromKeys(aggIn.targetLocales, aggIn.outcome)
     IN aggOut' = [called |-> TRUE, threw |-> result.threw, value |-> result.value]
  /\ UNCHANGED <<aggIn, chainVars, otherVars>>

NextAgg == AggCall

SpecAgg == InitAgg /\ [][NextAgg]_vars

----------------------------------------------------------------------------
(* Properties of the credential and scope resolver *)

\* A source supplies a value when it is a non-empty string.
Present(x) == x.t = "string" /\ x.v # <<>>

\* The Authorization header has the form 'Bearer <token>' with a token.
HasBearer(r) ==
  LET h == r.headers.authorization
  IN /\ h.t = "string"
     /\ Len(h.v) > Len(BearerPrefix)
     /\ \A i \in 1..Len(BearerPrefix) : h.v[i] = BearerPrefix[i]

BearerToken(r) ==
  LET h == r.headers.authorization
  IN [i \in 1..(Len(h.v) - Len(BearerPrefix)) |-> h.v[i + Len(BearerPrefix)]]

\* C1: the client is built with the first present credential in the order
\* Bearer token of the Authorization header, X-Api-Token, Lokalise-Api-Token,
\* LOKALISE_API_TOKEN; an Authorization header without 'Bearer ' or with an
\* empty token counts as absent.
C1_CredentialPrecedence ==
  "validateLokaliseToken" \in ran =>
    LET x == req.headers.xApiToken
        l == req.headers.lokaliseApiToken
        f == env.LOKALISE_API_TOKEN
    IN /\ HasBearer(req) => req.lokaliseClient = LokaliseClient(BearerToken(req))
       /\ (~HasBearer(req) /\ Present(x)) => req.lokaliseClient = LokaliseClient(x.v)
       /\ (~HasBearer(req) /\ ~Present(x) /\ Present(l))
            => req.lokaliseClient = LokaliseClient(l.v)
       /\ (~HasBearer(req) /\ ~Present(x) /\ ~Present(l) /\ Present(f))
            => req.lokaliseClient = LokaliseClient(f.v)
       /\ (HasBearer(req) \/ Present(x) \/ Present(l))
            => (Present(f) => req.lokaliseClient.apiToken # f.v)

\* Every source supplies a credential and the Bearer token is the one used.
C1_Witness ==
  /\ "validateLokaliseToken" \in ran
  /\ HasBearer(req)
  /\ Present(req.headers.xApiToken)
  /\ Present(req.headers.lokaliseApiToken)
  /\ Present(env.LOKALISE_API_TOKEN)
  /\ req.lokaliseClient = LokaliseClient(T1)

\* C2: when the handler runs, req.projektId is the first present value in the
\* order path parameter, body field, query-string field (projektId), the value
\* validateLokaliseToken stored (itself params, body, query projectId, then
\* the fallback), LOKALISE_PROJECT_ID; the fallback is not chosen when the
\* request supplies a scope.
C2_ScopePrecedence ==
  "handler" \in ran =>
    LET pp == req.params.projectId
        bp == req.body.projectId
        qk == req.query.projektId
        qp == req.query.projectId
        f == env.LOKALISE_PROJECT_ID
    IN /\ Present(pp) => req.projektId = pp
       /\ (~Present(pp) /\ Present(bp)) => req.projektId = bp
       /\ (~Present(pp) /\ ~Present(bp) /\ Present(qk)) => req.projektId = qk
       /\ (~Present(pp) /\ ~Present(bp) /\ ~Present(qk) /\ Present(qp))
            => req.projektId = qp
       /\ (~Present(pp) /\ ~Present(bp) /\ ~Present(qk) /\ ~Present(qp))
            => req.projektId = f
       /\ (Present(pp) \/ Present(bp) \/ Present(qk) \/ Present(qp))
            => req.projektId # f

\* The handler runs with the scope of the query string although an earlier
\* stage stored another one and the fallback is set.
C2_Witness ==
  /\ "handler" \in ran
  /\ ~Present(req.params.projectId)
  /\ Present(req.body.projectId)
  /\ Present(req.query.projektId)
  /\ Present(req.query.projectId)
  /\ Present(env.LOKALISE_PROJECT_ID)
  /\ req.projektId = Str(P2)

NoCredential(r, e) ==
  /\ ~HasBearer(r)
  /\ ~Present(r.headers.xApiToken)
  /\ ~Present(r.headers.lokaliseApiToken)
  /\ ~Present(e.LOKALISE_API_TOKEN)

\* C3: when no credential source yields a value, validateLokaliseToken answers
\* 401, creates no client, does not pass control on, and no upstream request
\* is issued for the request.
C3_MissingCredential ==
  ("validateLokaliseToken" \in ran /\ NoCredential(req, env)) =>
    /\ res.status = 401
    /\ res.body.success = FALSE
    /\ req.lokaliseClient = Undefined
    /\ ran = {"validateLokaliseToken"}
    /\ pc = "done"
    /\ upstreamLog = <<>>

\* A request whose only credential-like input is an Authorization header that
\* is not a Bearer header has been refused.
C3_Witness ==
  /\ "validateLokaliseToken" \in ran
  /\ NoCredential(req, env)
  /\ req.headers.authorization = Str(T5)
  /\ res.status = 401

NoScope(r, e) ==
  /\ ~Present(r.params.projectId)
  /\ ~Present(r.body.projectId)
  /\ ~Present(r.query.projektId)
  /\ ~Present(r.query.projectId)
  /\ ~Present(e.LOKALISE_PROJECT_ID)

\* A request that carries nothing but the given scope fields.
ScopeProbe(pp, bp, qp, qk) ==
  NewRequest("fetch", Undefined, Undefined, Undefined, pp, bp, qp, qk,
             Undefined, Undefined)

\* Does the probe get a scope from the two stages, without the fallback?
ProbeResolves(r) ==
  LET stored == AttachProjectId(r, NoEnv)
      r2 == [r EXCEPT !.projektId = IF Truthy(stored) THEN stored ELSE @]
  IN Truthy(ResolveProjectId(r2, NoEnv))

\* The probes that supply a scope at one location only.
ProbesAt(location) ==
  CASE location = "URL" -> {ScopeProbe(Str(P1), Undefined, Undefined, Undefined)}
    [] location = "Body" -> {ScopeProbe(Undefined, Str(P2), Undefined, Undefined)}
    [] location = "Query" -> {ScopeProbe(Undefined, Undefined, Str(P3), Undefined),
                              ScopeProbe(Undefined, Undefined, Undefined, Str(P4))}

\* The locations of a request from which the two stages take a scope.
AcceptedLocations ==
  {location \in {"URL", "Body", "Query"} :
     \E r \in ProbesAt(location) : ProbeResolves(r)}

\* C4: when no scope resolves at requireProjectId, the request is answered 400
\* with every accepted input location (path, body, query) reported, the
\* handler is not invoked and no upstream request is issued.
C4_MissingScope ==
  ("requireProjectId" \in ran /\ NoScope(req, env)) =>
    /\ res.status = 400
    /\ res.body.success = FALSE
    /\ AcceptedLocations = {"URL", "Body", "Query"}
    /\ AcceptedLocations \subseteq
         {res.body.error.expectedFormats[i].location :
            i \in DOMAIN res.body.error.expectedFormats}
    /\ "handler" \notin ran
    /\ "validateGetTranslations" \notin ran
    /\ pc = "done"
    /\ upstreamLog = <<>>

\* An authenticated request without any scope has been refused.
C4_Witness ==
  /\ "requireProjectId" \in ran
  /\ NoScope(req, env)
  /\ req.lokaliseClient # Undefined
  /\ res = MissingProjectIdResponse

----------------------------------------------------------------------------
(* Properties of the translation aggregation *)

Requested == Range(aggIn.targetLocales)

\* The upstream call succeeded and returned this sequence of keys (empty when
\* the keys list is missing).
ReturnedKeys ==
  IF aggIn.outcome.ok /\ aggIn.outcome.body.keys.t = "array"
  THEN aggIn.outcome.body.keys.v ELSE <<>>

\* The translation records of a key, none when the field is missing.
Records(key) ==
  IF key.translations.t = "array" THEN key.translations.v ELSE <<>>

\* The positions of the non-empty texts a key carries for a locale.
TextPositions(key, locale) ==
  {j \in DOMAIN Records(key) :
     /\ Records(key)[j].language_iso = locale
     /\ Records(key)[j].translation # <<>>}

Max(S) == CHOOSE m \in S : \A n \in S : n <= m

\* C5: when the key fetch succeeds with at least one key, the returned map has
\* exactly the requested locales, a locale without a matching translation
\* having an empty mapping; fr and de against one key translated into fr only
\* give {fr: {key: text}, de: {}}.
C5_OneMappingPerRequestedLocale ==
  (aggOut.called /\ aggIn.outcome.ok /\ Len(ReturnedKeys) > 0) =>
    /\ ~aggOut.threw
    /\ DOMAIN aggOut.value = Requested
    /\ \A l \in Requested :
         (\A i \in DOMAIN ReturnedKeys : TextPositions(ReturnedKeys[i], l) = {})
           => aggOut.value[l] = EmptyObject
    /\ (/\ aggIn.targetLocales = <<FR, DE>>
        /\ ReturnedKeys = << Key(Str(KA), Arr(<<Translation(FR, X)>>)) >>)
         => aggOut.value = (FR :> (KA :> X)) @@ (DE :> EmptyObject)

\* The scenario of the claim has been computed.
C5_Witness ==
  /\ aggOut.called
  /\ aggIn.targetLocales = <<FR, DE>>
  /\ aggIn.outcome = Success(Arr(<< Key(Str(KA), Arr(<<Translation(FR, X)>>)) >>))
  /\ DOMAIN aggOut.value = {FR, DE}
  /\ aggOut.value[DE] = EmptyObject

\* C6: when the key fetch succeeds with zero keys (empty or missing list),
\* the operation raises no error and returns one empty mapping for every
\* requested locale.
C6_ZeroKeysEmptyMappings ==
  (aggOut.called /\ aggIn.outcome.ok /\ Len(ReturnedKeys) = 0) =>
    /\ ~aggOut.threw
    /\ aggOut.value = [l \in Requested |-> EmptyObject]

\* C7: when the upstream call of getTranslationsFromKeys fails, the operation
\* returns an empty mapping for every requested locale and the handler
\* answers with a success response.
C7_UpstreamFailureEmptyMappings ==
  (/\ pc = "done"
   /\ Len(upstreamLog) = 1
   /\ upstreamLog[1].outcome \in {Failure(500), Failure(404)}) =>
    /\ res.status = 200
    /\ res.body.success = TRUE
    /\ res.body.data = [l \in Range(HandlerLocales(req)) |-> EmptyObject]

\* C8: every locale of the returned map is a requested locale.
C8_OnlyRequestedLocales ==
  aggOut.called => DOMAIN aggOut.value \subseteq Requested

\* A record of a locale that was not requested has been passed over.
C8_Witness ==
  /\ aggOut.called
  /\ Len(ReturnedKeys) > 0
  /\ \E i \in DOMAIN ReturnedKeys : TextPositions(ReturnedKeys[i], ES) # {}
  /\ DOMAIN aggOut.value = Requested
  /\ ES \notin DOMAIN aggOut.value

\* C9: every entry (name, text) of a locale's mapping has a non-empty text
\* that upstream attached, for that locale, to a key resolving to that name;
\* so a name whose keys carry no text, or only empty texts, for a requested
\* locale has no entry there.
C9_EntriesComeFromUpstream ==
  aggOut.called =>
    \A l \in DOMAIN aggOut.value :
      \A n \in DOMAIN aggOut.value[l] :
        /\ aggOut.value[l][n] # <<>>
        /\ \E i \in DOMAIN ReturnedKeys :
             /\ KeyName(ReturnedKeys[i]) = n
             /\ \E j \in TextPositions(ReturnedKeys[i], l) :
                  Records(ReturnedKeys[i])[j].translation = aggOut.value[l][n]

\* A key with only an empty text for a requested locale got no entry, next to
\* a key that got one.
C9_Witness ==
  /\ aggOut.called
  /\ aggIn.targetLocales = <<FR, DE>>
  /\ ReturnedKeys = << Key(Str(KA), Arr(<<Translation(FR, <<>>)>>)),
                       Key(Str(KB), Arr(<<Translation(FR, X), Translation(DE, Y)>>)) >>
  /\ aggOut.value = (FR :> (KB :> X)) @@ (DE :> (KB :> Y))

\* C10: when several keys resolve to one name and carry a non-empty text for
\* a requested locale, the value stored is the text of the key that comes
\* last in upstream order.
C10_LastWriteWins ==
  (aggOut.called /\ Len(ReturnedKeys) > 0) =>
    \A l \in Requested :
      \A k \in DOMAIN ReturnedKeys :
        LET n == KeyName(ReturnedKeys[k])
            same == {i \in DOMAIN ReturnedKeys :
                       /\ KeyName(ReturnedKeys[i]) = n
                       /\ TextPositions(ReturnedKeys[i], l) # {}}
        IN same # {} =>
             LET last == ReturnedKeys[Max(same)]
             IN /\ n \in DOMAIN aggOut.value[l]
                /\ aggOut.value[l][n] =
                     Records(last)[Max(TextPositions(last, l))].translation

\* Two keys named alike, one by a platform mapping, carry different texts for
\* fr; the later one is stored.
C10_Witness ==
  /\ aggOut.called
  /\ aggIn.targetLocales = <<FR>>
  /\ ReturnedKeys = << Key(PlatformName("web", KA), Arr(<<Translation(FR, X)>>)),
                       Key(Str(KA), Arr(<<Translation(FR, Y)>>)) >>
  /\ aggOut.value = (FR :> (KA :> Y))

\* The display name of a key as upstream means it: the string itself, or the
\* one value of a single-entry platform mapping.
DisplayName(key) ==
  IF key.key_name.t = "string" THEN key.key_name.v
  ELSE (CHOOSE e \in Range(key.key_name.v) : TRUE).name

WellNamed(key) ==
  key.key_name.t = "string"
    \/ (key.key_name.t = "object" /\ Len(key.key_name.v) = 1)

\* C11: a key whose key_name is a single-entry platform mapping is stored
\* under that entry's value, a key whose key_name is a string under the string
\* unchanged; no other names appear in the map.
C11_DisplayNameResolution ==
  (aggOut.called /\ Len(ReturnedKeys) > 0
     /\ \A i \in DOMAIN ReturnedKeys : WellNamed(ReturnedKeys[i])) =>
    \A l \in Requested :
      /\ \A i \in DOMAIN ReturnedKeys :
           TextPositions(ReturnedKeys[i], l) # {}
             => DisplayName(ReturnedKeys[i]) \in DOMAIN aggOut.value[l]
      /\ \A n \in DOMAIN aggOut.value[l] :
           \E i \in DOMAIN ReturnedKeys :
             DisplayName(ReturnedKeys[i]) = n /\ TextPositions(ReturnedKeys[i], l) # {}

\* A key named by a platform mapping and a key named by a string are both
\* stored under their display names.
C11_Witness ==
  /\ aggOut.called
  /\ aggIn.targetLocales = <<FR>>
  /\ ReturnedKeys = << Key(PlatformName("web", KA), Arr(<<Translation(FR, X)>>)),
                       Key(Str(KB), Arr(<<Translation(FR, Y)>>)) >>
  /\ aggOut.value = (FR :> ((KA :> X) @@ (KB :> Y)))

----------------------------------------------------------------------------
(* The payload normalization of uploadFile applied to bounded inputs *)

MaxFill == 104

Repeat(c, n) == [i \in 1 .. n |-> c]

\* The encoded payload of the upload example of POST /:projectId/upload,
\* "data": "eyJrZXkxIjogInZhbHVlMSIsICJrZXkyIjogInZhbHVlMiJ9", sent as the
\* data of a request.
DocumentedData ==
  << "e", "y", "J", "r", "Z", "X", "k", "x", "I", "j", "o", "g",
     "I", "n", "Z", "h", "b", "H", "V", "l", "M", "S", "I", "s",
     "I", "C", "J", "r", "Z", "X", "k", "y", "I", "j", "o", "g",
     "I", "n", "Z", "h", "b", "H", "V", "l", "M", "i", "J", "9" >>

CodecHeads == { <<>>, <<"{">>, <<"é">>, <<"Q", "+">>, <<"=">>, <<"/">> }

CodecFills == { "A", "z" }

CodecFillLengths == {0, 1, 3} \cup ((Threshold - 4) .. MaxFill)

CodecTails == { <<>>, <<"=">>, <<"=", "=">>, <<"=", "A">>, <<"}">>, <<"0", "9">> }

\* validateUploadFile rejects a missing or empty data field, so uploadFile
\* is reached with a non-empty string only.
CodecInputs ==
  ({ h \o Repeat(f, n) \o t :
       h \in CodecHeads, f \in CodecFills, n \in CodecFillLengths, t \in CodecTails }
     \ { <<>> })
    \cup { DocumentedData }

InitCodec ==
  /\ env = NoEnv
  /\ req = NoRequest
  /\ pc = "idle"
  /\ res = NoResponse
  /\ sent = 0
  /\ ran = {}
  /\ upstreamLog = <<>>
  /\ aggIn = NoAggInput
  /\ aggOut = NotCalled
  /\ codecIn \in CodecInputs
  /\ codecOut = <<>>
  /\ ClientIdle
  /\ RestIdle

\* uploadFile computes base64Data from data.data
CodecNormalize ==
  /\ codecOut = <<>>
  /\ codecOut' = <<Normalize(codecIn)>>
  /\ UNCHANGED <<codecIn, chainVars, aggVars, clientVars, pairVars, serverVars,
               validatorVars, uploadVars>>

\* the produced payload is uploaded again: uploadFile runs on its own output
CodecNormalizeAgain ==
  /\ Len(codecOut) = 1
  /\ codecOut' = Append(codecOut, Normalize(codecOut[1]))
  /\ UNCHANGED <<codecIn, chainVars, aggVars, clientVars, pairVars, serverVars,
               validatorVars, uploadVars>>

NextCodec == CodecNormalize \/ CodecNormalizeAgain

SpecCodec == InitCodec /\ [][NextCodec]_vars

----------------------------------------------------------------------------
(* Properties of the payload normalization *)

\* The number of trailing '=' characters of s.
Padding(s) == Cardinality({ i \in 1 .. Len(s) : \A j \in i .. Len(s) : s[j] = "=" })

\* Byte j of the bytes a base64 text stands for.
FromBase64Byte(s, j) ==
  LET g == (j - 1) \div 3
      v(k) == IF s[k] = "=" THEN 0 ELSE Base64Index(s[k])
      n == v(4 * g + 1) * 262144 + v(4 * g + 2) * 4096 + v(4 * g + 3) * 64 + v(4 * g + 4)
  IN CASE (j - 1) % 3 = 0 -> n \div 65536
       [] (j - 1) % 3 = 1 -> (n \div 256) % 256
       [] (j - 1) % 3 = 2 -> n % 256

\* The bytes a base64 text (whole four-character groups) stands for.
FromBase64(s) ==
  [j \in 1 .. (3 * (Len(s) \div 4) - Padding(s)) |-> FromBase64Byte(s, j)]

\* Alphabet characters, at least one, followed by padding characters only.
AlphabetThenPadding(s) ==
  \E k \in 1 .. Len(s) :
    /\ \A i \in 1 .. k : s[i] \in Base64Chars
    /\ \A i \in (k + 1) .. Len(s) : s[i] = "="

\* A genuine base64 text: a whole number of four-character groups, at most
\* two padding characters, and the canonical encoding of the bytes it
\* stands for.
ValidBase64(s) ==
  /\ Len(s) > 0
  /\ Len(s) % 4 = 0
  /\ AlphabetThenPadding(s)
  /\ Padding(s) <= 2
  /\ ToBase64(FromBase64(s)) = s

\* C12: a string input longer than 100 characters made only of base64
\* alphabet characters followed by optional '=' padding is passed on
\* unchanged; every other input is sent as the base64 encoding of its
\* UTF-8 bytes.
C12_EncodedClassifier ==
  Len(codecOut) >= 1 =>
    IF Len(codecIn) > 100 /\ AlphabetThenPadding(codecIn)
    THEN codecOut[1] = codecIn
    ELSE /\ ValidBase64(codecOut[1])
         /\ FromBase64(codecOut[1]) = Utf8(codecIn)

C12_Witness ==
  /\ Len(codecOut) >= 1
  /\ Len(codecIn) = 100
  /\ AlphabetThenPadding(codecIn)
  /\ codecOut[1] # codecIn
  /\ FromBase64(codecOut[1]) = Utf8(codecIn)

C12_WitnessLong ==
  /\ Len(codecOut) >= 1
  /\ Len(codecIn) = 101
  /\ AlphabetThenPadding(codecIn)
  /\ codecOut[1] = codecIn

\* C13: a genuinely pre-encoded (valid base64) input is forwarded
\* byte-identical, and normalizing the output of a normalization changes
\* nothing.
C13_Idempotent ==
  /\ (Len(codecOut) >= 1 /\ ValidBase64(codecIn)) => codecOut[1] = codecIn
  /\ Len(codecOut) = 2 => codecOut[2] = codecOut[1]

----------------------------------------------------------------------------
(* lokalise-client.ts: request and the operations built on it *)

\* A JavaScript object with the given fields.
Obj(fields) == [t |-> "record", v |-> fields]

\* o[k] on a value that is neither undefined nor null
Get(o, k) == IF o.t = "record" /\ k \in DOMAIN o.v THEN o.v[k] ELSE Undefined

\* o?.[k]
OptGet(o, k) == IF o.t \in {"undefined", "null"} THEN Undefined ELSE Get(o, k)

\* {...o}: the own fields of an object, nothing for another value
Spread(o) == IF o.t = "record" THEN o.v ELSE EmptyObject

BaseUrl == "https://api.lokalise.com/api2"

\* A request that is given no config at all, or a config with a method and
\* a body; no operation passes headers.
NoConfig == Undefined

Post == [method |-> "POST", headers |-> Undefined]

\* A variant that sends no credential header.
requestHeadersNoToken(apiToken, config) ==
  LET own == "Content-Type" :> "application/json"
      extra == IF config = Undefined \/ config.headers = Undefined
               THEN EmptyObject ELSE config.headers
  IN extra @@ own

\* const headers = {'X-Api-Token': this.apiToken,
\*                  'Content-Type': 'application/json', ...config?.headers}
requestHeaders(apiToken, config) ==
  LET own == ("X-Api-Token" :> apiToken) @@ ("Content-Type" :> "application/json")
      extra == IF config = Undefined \/ config.headers = Undefined
               THEN EmptyObject ELSE config.headers
  IN extra @@ own

\* fetch(url, {...config, headers})
Fetch(apiToken, path, config) ==
  [ url |-> <<BaseUrl, path>>,
    method |-> IF config = Undefined THEN "GET" ELSE config.method,
    headers |-> requestHeaders(apiToken, config) ]

\* A variant that sends the request a second time.
requestFetchesTwice(apiToken, path, config) ==
  << Fetch(apiToken, path, config), Fetch(apiToken, path, config) >>

\* The upstream requests one call of request issues: the single await fetch.
requestFetches(apiToken, path, config) == << Fetch(apiToken, path, config) >>

\* response.json() of a body that is not JSON rejects.
NotJson == [t |-> "notjson"]

\* await response.json().catch(() => ({}))
requestErrorData(response) ==
  IF response.json = NotJson THEN Obj(EmptyObject) ELSE response.json

\* A variant that prefers the generic message field.
requestErrorMessageGenericFirst(response) ==
  LET errorData == requestErrorData(response)
  IN Or(Or(Get(errorData, "message"), OptGet(Get(errorData, "error"), "message")),
        response.statusText)

\* errorData.error?.message || errorData.message || response.statusText
requestErrorMessage(response) ==
  LET errorData == requestErrorData(response)
  IN Or(Or(OptGet(Get(errorData, "error"), "message"), Get(errorData, "message")),
        response.statusText)

\* new Error(`Lokalise API error: ${response.status} - ${errorMessage}`)
LokaliseApiError(status, errorMessage) ==
  [ name |-> "Error",
    message |-> << "Lokalise API error: ", status, " - ", errorMessage.v >> ]

\* What a call of request settles to once upstream has answered.
requestSettle(response) ==
  IF ~ response.ok
  THEN [ state |-> "rejected",
         error |-> LokaliseApiError(response.status, requestErrorMessage(response)) ]
  ELSE [ state |-> "fulfilled", value |-> response.json ]

Pending == [state |-> "pending"]

\* A variant that waits for every lookup and reads a failed one as undefined.
PromiseAllSettled(cs, i) ==
  IF \A j \in DOMAIN cs : cs[j].state # "pending"
  THEN [ state |-> "fulfilled",
         value |-> [ j \in DOMAIN cs |->
                       IF cs[j].state = "fulfilled" THEN cs[j].value ELSE Undefined ] ]
  ELSE Pending

\* Promise.all over the calls cs, pending so far, right after call i has
\* settled: rejected with the error of the first call that fails, fulfilled
\* with every value once all have succeeded.
PromiseAll(cs, i) ==
  IF cs[i].state = "rejected"
  THEN [state |-> "rejected", error |-> cs[i].error]
  ELSE IF \A j \in DOMAIN cs : cs[j].state = "fulfilled"
  THEN [state |-> "fulfilled", value |-> [j \in DOMAIN cs |-> cs[j].value]]
  ELSE Pending

\* The earlier assembly, which spread projectResult.project.
getProjectAssembleNested(projectResult, languagesResult) ==
  [ project |->
      Obj(Put(Spread(Get(projectResult, "project")), "languages",
              Or(Get(languagesResult, "languages"), Arr(<<>>)))) ]

\* { project: {...projectResult, languages: languagesResult.languages || []} }
getProjectAssemble(projectResult, languagesResult) ==
  [ project |->
      Obj(Put(Spread(projectResult), "languages",
              Or(Get(languagesResult, "languages"), Arr(<<>>)))) ]

\* The operations of the client.
ReadOps ==
  { "getProject", "getAllProjects", "getKeys", "getProjectContributors",
    "getTasks", "getTask", "getTranslationsFromKeys" }

WriteOps ==
  { "createKeys", "updateTranslations", "uploadFile", "downloadFiles", "createTask" }

ClientOps == ReadOps \cup WriteOps

MetadataPath == "projects/p1"

LanguagesPath == "projects/p1/languages"

\* The calls of request an operation makes, in order.
OpRequests(o) ==
  CASE o = "getProject" ->
         << [path |-> MetadataPath, config |-> NoConfig],
            [path |-> LanguagesPath, config |-> NoConfig] >>
    [] o = "getAllProjects" -> << [path |-> "projects", config |-> NoConfig] >>
    [] o = "getKeys" -> << [path |-> "projects/p1/keys", config |-> NoConfig] >>
    [] o = "createKeys" -> << [path |-> "projects/p1/keys", config |-> Post] >>
    [] o = "updateTranslations" ->
         << [path |-> "projects/p1/translations", config |-> Post] >>
    [] o = "uploadFile" -> << [path |-> "projects/p1/files/upload", config |-> Post] >>
    [] o = "downloadFiles" ->
         << [path |-> "projects/p1/files/download", config |-> Post] >>
    [] o = "getProjectContributors" ->
         << [path |-> "projects/p1/contributors", config |-> NoConfig] >>
    [] o = "createTask" -> << [path |-> "projects/p1/tasks", config |-> Post] >>
    [] o = "getTasks" -> << [path |-> "projects/p1/tasks", config |-> NoConfig] >>
    [] o = "getTask" -> << [path |-> "projects/p1/tasks/7", config |-> NoConfig] >>
    [] o = "getTranslationsFromKeys" ->
         << [ path |-> "projects/p1/keys?include_translations=1&limit=5000",
              config |-> NoConfig ] >>

RECURSIVE FetchesOfAll(_, _)
\* Every fetch the calls rs issue, in call order: each call runs up to its
\* await fetch before the caller goes on.
FetchesOfAll(apiToken, rs) ==
  IF rs = <<>> THEN <<>>
  ELSE requestFetches(apiToken, Head(rs).path, Head(rs).config)
         \o FetchesOfAll(apiToken, Tail(rs))

\* What the operation returns to the route handler, given the join of its
\* calls of request and the upstream answer just received.
OpResult(o, join, response) ==
  CASE join.state = "pending" -> Pending
    [] o = "getProject" /\ join.state = "fulfilled" ->
         [ state |-> "fulfilled",
           value |-> getProjectAssemble(join.value[1], join.value[2]) ]
    [] o = "getTranslationsFromKeys" ->
         [ state |-> "fulfilled",
           value |-> getTranslationsFromKeys(<<FR>>,
                       IF response.ok THEN Success(Arr(<<>>))
                       ELSE Failure(response.status)) ]
    [] o # "getProject" /\ join.state = "fulfilled" ->
         [state |-> "fulfilled", value |-> join.value[1]]
    [] OTHER -> join

\* The operations whose route handler writes success: false in its catch:
\* the three routes of routes/projects.ts, GET /:projectId of keys.ts and
\* POST /:projectId/upload. The catch of every other route writes the
\* error alone.
OpsWithFailureFlag ==
  { "getProject", "getAllProjects", "getProjectContributors", "getKeys", "uploadFile" }

\* res.status(500).json({ [success: false,] error: { message, timestamp } })
RouteErrorBody(o, error) ==
  IF o \in OpsWithFailureFlag
  THEN [success |-> FALSE, error |-> [message |-> error.message, timestamp |-> Now]]
  ELSE [error |-> [message |-> error.message, timestamp |-> Now]]

\* A variant whose catch answers like the read-aggregation path: a success
\* response with an empty result.
RouteResponseSwallow(o, result) ==
  IF result.state = "fulfilled"
  THEN [ status |-> 200,
         body |-> [success |-> TRUE, data |-> result.value, timestamp |-> Now] ]
  ELSE [ status |-> 200,
         body |-> [success |-> TRUE, data |-> Obj(EmptyObject), timestamp |-> Now] ]

\* The route handler around operation o: res.json({success: true, data,
\* timestamp}) or, in its catch, res.status(500).json(...). The summary
\* fields some routes add beside data (count, created, updated, process_id,
\* bundle_url, task_id) are left out.
RouteResponse(o, result) ==
  IF result.state = "fulfilled"
  THEN [ status |-> 200,
         body |-> [success |-> TRUE, data |-> result.value, timestamp |-> Now] ]
  ELSE [ status |-> 500, body |-> RouteErrorBody(o, result.error) ]

----------------------------------------------------------------------------
(* Upstream answers *)

MsgUpstream == Str(<<"u">>)

MsgGeneric == Str(<<"g">>)

StatusTexts == (401 :> Str(<<"U", "n", "a", "u", "t", "h">>))
                 @@ (404 :> Str(<<"N", "o", "t", " ", "F", "o", "u", "n", "d">>))
                 @@ (500 :> Str(<<>>))

FailureStatuses == DOMAIN StatusTexts

\* Error bodies: not JSON, {}, Lokalise's {error: {message}}, a generic
\* {message}, both, an empty upstream message beside a generic one, and an
\* error object without a message.
ErrorBodies ==
  { NotJson,
    Obj(EmptyObject),
    Obj("error" :> Obj("message" :> MsgUpstream)),
    Obj("message" :> MsgGeneric),
    Obj(("error" :> Obj("message" :> MsgUpstream)) @@ ("message" :> MsgGeneric)),
    Obj(("error" :> Obj("message" :> Str(<<>>))) @@ ("message" :> MsgGeneric)),
    Obj("error" :> Obj("code" :> Str(<<"4">>))) }

FailureResponses ==
  { [ok |-> FALSE, status |-> st, statusText |-> StatusTexts[st], json |-> b] :
      st \in FailureStatuses, b \in ErrorBodies }

OkResponse(json) == [ok |-> TRUE, status |-> 200, statusText |-> Str(<<"O", "K">>), json |-> json]

NameA == Str(<<"A">>)

Settings == Obj("per_platform_key_names" :> Str(<<"0">>))

\* GET /projects/{id}: the project's fields at the root of the body.
MetadataBodies ==
  { Obj(("project_id" :> Str(P1)) @@ ("name" :> NameA)),
    Obj(("project_id" :> Str(P1)) @@ ("name" :> NameA) @@ ("settings" :> Settings)),
    Obj("project_id" :> Str(P1)) }

Lang(iso) == Obj("lang_iso" :> Str(iso))

\* GET /projects/{id}/languages: a list, an empty list, no languages field,
\* null, and languages values that are not arrays.
LanguagesBodies ==
  { Obj(("project_id" :> Str(P1)) @@ ("languages" :> Arr(<<Lang(FR), Lang(DE)>>))),
    Obj(("project_id" :> Str(P1)) @@ ("languages" :> Arr(<<>>))),
    Obj("project_id" :> Str(P1)),
    Obj(("project_id" :> Str(P1)) @@ ("languages" :> Null)),
    Obj(("project_id" :> Str(P1)) @@ ("languages" :> Str(<<>>))),
    Obj(("project_id" :> Str(P1)) @@ ("languages" :> Str(<<"f", "r">>))),
    Obj(("project_id" :> Str(P1)) @@ ("languages" :> Obj("fr" :> Lang(FR)))) }

OtherBody == Obj("project_id" :> Str(P1))

\* The answers upstream can give to a request of the given path.
ResponsesTo(path) ==
  FailureResponses \cup
    { OkResponse(b) :
        b \in IF path = MetadataPath THEN MetadataBodies
              ELSE IF path = LanguagesPath THEN LanguagesBodies
              ELSE {OtherBody} }

----------------------------------------------------------------------------
(* One operation of a client, from the route handler's call to its response *)

InitClient ==
  /\ env = NoEnv
  /\ req = NoRequest
  /\ pc = "idle"
  /\ res = NoResponse
  /\ sent = 0
  /\ ran = {}
  /\ upstreamLog = <<>>
  /\ aggIn = NoAggInput
  /\ aggOut = NotCalled
  /\ codecIn = <<>>
  /\ codecOut = <<>>
  /\ clientToken \in {Str(T1), Str(T2)}
  /\ op = "none"
  /\ calls = <<>>
  /\ wire = <<>>
  /\ opResult = Pending
  /\ httpRes = NoResponse
  /\ RestIdle

\* The route handler calls req.lokaliseClient.<operation>(...): every call
\* of request the operation makes runs up to its await fetch.
Invoke(o) ==
  /\ op = "none"
  /\ op' = o
  /\ calls' = [ i \in DOMAIN OpRequests(o) |->
                  [ path |-> OpRequests(o)[i].path,
                    config |-> OpRequests(o)[i].config,
                    state |-> "pending" ] ]
  /\ wire' = FetchesOfAll(clientToken.v, OpRequests(o))
  /\ UNCHANGED <<clientToken, opResult, httpRes, chainVars, aggVars, codecVars,
               pairVars, serverVars, validatorVars, uploadVars>>

\* Upstream answers call i: request settles, and whatever awaits it runs
\* on: the join of the operation, the operation, the route handler.
UpstreamAnswer(i, response) ==
  /\ op # "none"
  /\ i \in DOMAIN calls
  /\ calls[i].state = "pending"
  /\ response \in ResponsesTo(calls[i].path)
  /\ LET settled == requestSettle(response)
         after == [ calls EXCEPT ![i] =
                      [ path |-> calls[i].path, config |-> calls[i].config,
                        response |-> response ] @@ settled ]
         result == OpResult(op, PromiseAll(after, i), response)
     IN /\ calls' = after
        /\ IF opResult.state = "pending"
           THEN /\ opResult' = result
                /\ httpRes' = IF result.state = "pending" THEN httpRes
                              ELSE RouteResponse(op, result)
           ELSE UNCHANGED <<opResult, httpRes>>
  /\ UNCHANGED <<clientToken, op, wire, chainVars, aggVars, codecVars,
               pairVars, serverVars, validatorVars, uploadVars>>

NextClient ==
  \/ \E o \in ClientOps : Invoke(o)
  \/ \E i \in DOMAIN calls :
       \E response \in ResponsesTo(calls[i].path) : UpstreamAnswer(i, response)

SpecClient == InitClient /\ [][NextClient]_vars

----------------------------------------------------------------------------
(* Properties of the client *)

\* C14: every upstream request of every operation carries the X-Api-Token
\* header with the credential the client was constructed with.
C14_TokenOnEveryRequest ==
  /\ op # "none" => Len(wire) > 0
  /\ \A i \in DOMAIN wire :
       /\ "X-Api-Token" \in DOMAIN wire[i].headers
       /\ wire[i].headers["X-Api-Token"] = clientToken.v

C14_Witness ==
  /\ op = "uploadFile"
  /\ clientToken = Str(T2)
  /\ Len(wire) = 1
  /\ wire[1].method = "POST"
  /\ wire[1].headers["X-Api-Token"] = T2

\* A field holds a message: a non-empty string.
Provided(v) == v.t = "string" /\ Len(v.v) > 0

\* The message field of object o, where o is an object that has one.
MessageOf(o) ==
  IF o.t = "record" /\ "message" \in DOMAIN o.v THEN o.v["message"] ELSE Undefined

\* The error field of a JSON error body.
ErrorOf(body) ==
  IF body.t = "record" /\ "error" \in DOMAIN body.v THEN body.v["error"] ELSE Undefined

\* The message the precedence of C15 selects for a failed answer.
SelectedMessage(response) ==
  IF Provided(MessageOf(ErrorOf(response.json)))
  THEN MessageOf(ErrorOf(response.json))
  ELSE IF Provided(MessageOf(response.json))
  THEN MessageOf(response.json)
  ELSE response.statusText

\* C15: a call of request that upstream answers with a non-success status
\* fails; its message holds the upstream status code and the upstream
\* error.message, else the body's message, else the status text (also for
\* a body that is not JSON).
C15_ErrorMessagePrecedence ==
  \A i \in DOMAIN calls :
    (calls[i].state # "pending" /\ ~ calls[i].response.ok) =>
      /\ calls[i].state = "rejected"
      /\ calls[i].error.message =
           << "Lokalise API error: ", calls[i].response.status, " - ",
              SelectedMessage(calls[i].response).v >>

C15_Witness ==
  /\ op = "createKeys"
  /\ calls[1].state = "rejected"
  /\ calls[1].response.status = 404
  /\ calls[1].response.json =
       Obj(("error" :> Obj("message" :> MsgUpstream)) @@ ("message" :> MsgGeneric))
  /\ calls[1].error.message = << "Lokalise API error: ", 404, " - ", MsgUpstream.v >>

\* C16: when an upstream call of an operation that surfaces errors fails,
\* the status returned to the caller is the upstream status.
C16_UpstreamStatusPassedThrough ==
  opResult.state = "rejected" =>
    \E i \in DOMAIN calls :
      /\ calls[i].state = "rejected"
      /\ httpRes.status = calls[i].response.status

\* C17: each call of request issues exactly one upstream request, whether
\* it succeeds or fails; a write operation causes at most one upstream
\* write.
C17_SingleAttempt ==
  op # "none" =>
    /\ Len(wire) = Len(OpRequests(op))
    /\ \A i \in DOMAIN wire : wire[i].url = <<BaseUrl, OpRequests(op)[i].path>>
    /\ op \in WriteOps => Cardinality({i \in DOMAIN wire : wire[i].method = "POST"}) <= 1

C17_Witness ==
  /\ op = "createTask"
  /\ calls[1].state = "rejected"
  /\ opResult.state = "rejected"
  /\ Len(wire) = 1
  /\ wire[1].method = "POST"

\* getProject has returned a record.
ProjectReturned == op = "getProject" /\ opResult.state = "fulfilled"

\* C18: the record getProject returns holds every top-level field of the
\* metadata lookup result unchanged, at its top level, plus a languages
\* field with the list of the languages lookup.
C18_FlatMerge ==
  ProjectReturned =>
    LET metadata == calls[1].response.json.v
        languages == calls[2].response.json
        project == opResult.value.project.v
    IN /\ \A k \in DOMAIN metadata : k \in DOMAIN project /\ project[k] = metadata[k]
       /\ DOMAIN project = DOMAIN metadata \cup {"languages"}
       /\ Get(languages, "languages").t = "array"
            => project["languages"] = Get(languages, "languages")

C18_Witness ==
  /\ ProjectReturned
  /\ opResult.value.project =
       Obj(("project_id" :> Str(P1)) @@ ("name" :> NameA) @@ ("settings" :> Settings)
             @@ ("languages" :> Arr(<<Lang(FR), Lang(DE)>>)))

\* C19: the languages field of the record getProject returns is a sequence;
\* it is the empty sequence when the languages lookup result carries no
\* languages array (missing, null, or not an array).
C19_LanguagesDefaultEmpty ==
  ProjectReturned =>
    LET languages == Get(calls[2].response.json, "languages")
        project == opResult.value.project.v
    IN /\ project["languages"].t = "array"
       /\ languages.t # "array" => project["languages"] = Arr(<<>>)

\* The response tells the caller the request succeeded.
SuccessResponse(response) ==
  /\ response.status = 200
  /\ "success" \in DOMAIN response.body
  /\ response.body.success

\* C20: getProject issues both lookups before either is answered, returns
\* a record only after both have succeeded, and fails, without a record,
\* as soon as either has failed.
C20_JoinBothOrFail ==
  op = "getProject" =>
    /\ Len(wire) = 2
    /\ { wire[i].url[2] : i \in DOMAIN wire } = {MetadataPath, LanguagesPath}
    /\ opResult.state = "fulfilled" => \A i \in DOMAIN calls : calls[i].state = "fulfilled"
    /\ (\E i \in DOMAIN calls : calls[i].state = "rejected") =>
         /\ opResult.state = "rejected"
         /\ httpRes.status # 0 /\ ~ SuccessResponse(httpRes)
    /\ (\E i \in DOMAIN calls : calls[i].state = "pending") =>
         opResult.state # "fulfilled"

C20_Witness ==
  /\ op = "getProject"
  /\ calls[1].state = "rejected"
  /\ calls[2].state = "fulfilled"
  /\ opResult.state = "rejected"
  /\ ~ SuccessResponse(httpRes)

C20_WitnessLanguagesFail ==
  /\ op = "getProject"
  /\ calls[1].state = "fulfilled"
  /\ calls[2].state = "rejected"
  /\ opResult.state = "rejected"

\* The write operations named by C21.
SurfacingWrites == {"createKeys", "createTask", "updateTranslations", "uploadFile"}

\* C21: when the upstream call of a write operation fails, the handler
\* answers with an error status and the upstream error message, never with
\* a success response.
C21_WriteFailuresSurfaced ==
  (op \in SurfacingWrites /\ calls[1].state = "rejected") =>
    /\ httpRes.status >= 400
    /\ ~ SuccessResponse(httpRes)
    /\ httpRes.body.error.message = calls[1].error.message
    /\ httpRes.body.error.message[4] = SelectedMessage(calls[1].response).v

C21_Witness ==
  /\ op = "updateTranslations"
  /\ calls[1].state = "rejected"
  /\ calls[1].response.json = Obj("error" :> Obj("message" :> MsgUpstream))
  /\ httpRes.status = 500
  /\ httpRes.body.error.message[4] = MsgUpstream.v

\* C24: every response carries a boolean success field: true with data, or
\* false with error.message and error.timestamp.
C24_UniformEnvelope ==
  httpRes.status # 0 =>
    /\ "success" \in DOMAIN httpRes.body
    /\ httpRes.body.success \in BOOLEAN
    /\ IF httpRes.body.success
       THEN "data" \in DOMAIN httpRes.body
       ELSE /\ "error" \in DOMAIN httpRes.body
            /\ {"message", "timestamp"} \subseteq DOMAIN httpRes.body.error

----------------------------------------------------------------------------
(* Several requests of GET /api/keys/:projectId handled concurrently *)

MaxRequests == 2

PairRequests ==
  { NewRequest("keys", a, Undefined, Undefined, pp, Undefined, Undefined, Undefined,
               Undefined, Undefined) :
      a \in {Undefined, Str(BearerPrefix \o T1), Str(BearerPrefix \o T2)},
      pp \in {Str(P1), Str(P2)} }

PairAnswers ==
  { OkResponse(OtherBody),
    [ok |-> FALSE, status |-> 404, statusText |-> StatusTexts[404], json |-> NotJson] }

\* A variant that keeps the client in one place shared by all requests.
AttachClientShared(ss, i, client, projectId) ==
  [ j \in DOMAIN ss |->
      [ ss[j] EXCEPT
          !.req = [ @ EXCEPT
                      !.lokaliseClient = client,
                      !.projektId = IF j = i /\ Truthy(projectId) THEN projectId ELSE @ ] ] ]

\* req.lokaliseClient = lokaliseClient; if (projectId) req.projektId = projectId
AttachClient(ss, i, client, projectId) ==
  [ ss EXCEPT
      ![i].req = [ @ EXCEPT
                     !.lokaliseClient = client,
                     !.projektId = IF Truthy(projectId) THEN projectId ELSE @ ] ]

\* `projects/${projectId}/keys`
KeysPath(projectId) == << "projects/", projectId, "/keys" >>

InitPair ==
  /\ env \in { NoEnv,
               [LOKALISE_API_TOKEN |-> Str(T4), LOKALISE_PROJECT_ID |-> Str(P5)] }
  /\ req = NoRequest
  /\ pc = "idle"
  /\ res = NoResponse
  /\ sent = 0
  /\ ran = {}
  /\ upstreamLog = <<>>
  /\ aggIn = NoAggInput
  /\ aggOut = NotCalled
  /\ codecIn = <<>>
  /\ codecOut = <<>>
  /\ ClientIdle
  /\ slots \in [ 1 .. MaxRequests ->
                   { [req |-> r, pc |-> "validateLokaliseToken", res |-> NoResponse] :
                       r \in PairRequests } ]
  /\ slotWire = <<>>
  /\ srvIn = Unused
  /\ srvOut = Unused
  /\ valIn = Unused
  /\ valOut = Unused
  /\ uploadIn = Unused
  /\ uploadOut = Unused

\* validateLokaliseToken for request i
PairValidateToken(i) ==
  /\ slots[i].pc = "validateLokaliseToken"
  /\ LET apiToken == ResolveApiToken(slots[i].req, env)
         projectId == AttachProjectId(slots[i].req, env)
     IN IF ~ Truthy(apiToken)
        THEN slots' = [slots EXCEPT ![i].res = MissingTokenResponse, ![i].pc = "done"]
        ELSE slots' = [ AttachClient(slots, i, LokaliseClient(apiToken.v), projectId)
                          EXCEPT ![i].pc = "requireProjectId" ]
  /\ UNCHANGED <<slotWire, chainVars, aggVars, codecVars, clientVars, serverVars,
                 validatorVars, uploadVars>>

\* requireProjectId for request i
PairRequireProjectId(i) ==
  /\ slots[i].pc = "requireProjectId"
  /\ LET projectId == ResolveProjectId(slots[i].req, env)
     IN IF ~ Truthy(projectId)
        THEN slots' = [slots EXCEPT ![i].res = MissingProjectIdResponse, ![i].pc = "done"]
        ELSE slots' = [slots EXCEPT ![i].req.projektId = projectId, ![i].pc = "handler"]
  /\ UNCHANGED <<slotWire, chainVars, aggVars, codecVars, clientVars, serverVars,
                 validatorVars, uploadVars>>

\* The handler of request i up to its await:
\* req.lokaliseClient.getKeys(req.projektId)
PairHandler(i) ==
  /\ slots[i].pc = "handler"
  /\ slotWire' =
       Append(slotWire,
              [ by |-> i,
                fetch |-> Fetch(slots[i].req.lokaliseClient.apiToken,
                                KeysPath(slots[i].req.projektId.v), NoConfig) ])
  /\ slots' = [slots EXCEPT ![i].pc = "awaitUpstream"]
  /\ UNCHANGED <<chainVars, aggVars, codecVars, clientVars, serverVars,
                 validatorVars, uploadVars>>

\* Upstream answers the call of request i and its handler responds.
PairAnswer(i, response) ==
  /\ slots[i].pc = "awaitUpstream"
  /\ slots' = [ slots EXCEPT
                  ![i].res = RouteResponse("getKeys", requestSettle(response)),
                  ![i].pc = "done" ]
  /\ UNCHANGED <<slotWire, chainVars, aggVars, codecVars, clientVars, serverVars,
                 validatorVars, uploadVars>>

NextPair ==
  \E i \in DOMAIN slots :
    \/ PairValidateToken(i)
    \/ PairRequireProjectId(i)
    \/ PairHandler(i)
    \/ \E response \in PairAnswers : PairAnswer(i, response)

SpecPair == InitPair /\ [][NextPair]_vars

\* The credential request r carries, or the fallback value.
OwnCredential(r) ==
  IF HasBearer(r) THEN BearerToken(r) ELSE env.LOKALISE_API_TOKEN.v

\* Every upstream call carries the credential and the scope of the request
\* it was made for.
CallsUseOwnContext ==
  \A k \in DOMAIN slotWire :
    LET own == slots[slotWire[k].by].req
    IN /\ slotWire[k].fetch.headers["X-Api-Token"] = OwnCredential(own)
       /\ slotWire[k].fetch.url[2] = KeysPath(own.params.projectId.v)

\* A step writes the state of one request only.
OneRequestPerStep ==
  \E i \in DOMAIN slots : \A j \in DOMAIN slots \ {i} : slots'[j] = slots[j]

\* C22: for any interleaving of concurrently handled requests, every
\* upstream call made for a request uses the credential and scope resolved
\* from that request, and handling one request writes no state of another.
C22_RequestsIsolated == [] CallsUseOwnContext /\ [][OneRequestPerStep]_vars

C22_Witness ==
  /\ Len(slotWire) = 2
  /\ slotWire[1].by = 2
  /\ slotWire[2].by = 1
  /\ slotWire[1].fetch.headers["X-Api-Token"] = T2
  /\ slotWire[2].fetch.headers["X-Api-Token"] = T1
  /\ slotWire[1].fetch.url[2] = KeysPath(P1)
  /\ slotWire[2].fetch.url[2] = KeysPath(P2)
  /\ slots[1].pc = "done"

----------------------------------------------------------------------------
(* Properties of the aggregation entry points *)

\* The request names no locale: POST fetch without a targetLocales list or
\* with an empty one, GET with-translations without a locales parameter or
\* with an empty one.
NoLocales(r) ==
  IF r.route = "fetch"
  THEN \/ r.body.targetLocales.t # "array"
       \/ r.body.targetLocales.v = <<>>
  ELSE ~ Present(r.query.locales)

\* C23: an aggregation request that names no locale, and has a credential
\* and a scope, is answered 400, and no upstream request is issued for it,
\* on both entry points.
C23_EmptyLocalesFailFast ==
  (req.route \in Routes /\ NoLocales(req)) =>
    /\ upstreamLog = <<>>
    /\ (pc = "done" /\ ~ NoCredential(req, env) /\ ~ NoScope(req, env))
         => res.status = 400

C23_Witness ==
  /\ req.route = "fetch"
  /\ req.body.targetLocales = Str(FR)
  /\ pc = "done"
  /\ res = ValidatorMissingLocalesResponse
  /\ upstreamLog = <<>>

C23_WitnessGet ==
  /\ req.route = "withTranslations"
  /\ req.query.locales = Str(<<>>)
  /\ pc = "done"
  /\ res = HandlerMissingLocalesResponse
  /\ upstreamLog = <<>>

----------------------------------------------------------------------------
(* server.ts: the global error handler, and the catch of the route handlers *)

Development == <<"d", "e", "v", "e", "l", "o", "p", "m", "e", "n", "t">>

Production == <<"p", "r", "o", "d", "u", "c", "t", "i", "o", "n">>

NodeEnvValues == {Undefined, Str(Development), Str(Production), Str(<<"t", "e", "s", "t">>)}

Num(n) == [t |-> "number", v |-> n]

\* The errors that reach a handler: a message, a stack (or none), and the
\* status a body parser sets on its errors (or none).
Errors ==
  { [message |-> msg, stack |-> st, status |-> status] :
      msg \in {"Lokalise API error: 404 - Not Found", "Unexpected token } in JSON"},
      st \in {Undefined, Str(<<"a", "t", " ", "f", "n">>)},
      status \in {Undefined, Num(400), Num(413)} }

\* A variant that takes every mode but production for the debug mode.
IsDevelopmentUnlessProduction(e) == e.NODE_ENV # Str(Production)

\* const isDevelopment = process.env.NODE_ENV === 'development'
IsDevelopment(e) == e.NODE_ENV = Str(Development)

\* res.status(err.status || 500).json({ success: false, error: {
\*   message: isDevelopment ? err.message : 'Internal server error',
\*   ...(isDevelopment && { stack: err.stack }), timestamp } })
GlobalErrorResponse(e, err) ==
  [ status |-> Or(err.status, Num(500)).v,
    body |-> [ success |-> FALSE,
               error |-> IF IsDevelopment(e)
                         THEN [message |-> err.message, stack |-> err.stack,
                               timestamp |-> Now]
                         ELSE [message |-> "Internal server error",
                               timestamp |-> Now] ] ]

InitServer ==
  /\ env = NoEnv
  /\ req = NoRequest
  /\ pc = "idle"
  /\ res = NoResponse
  /\ sent = 0
  /\ ran = {}
  /\ upstreamLog = <<>>
  /\ aggIn = NoAggInput
  /\ aggOut = NotCalled
  /\ codecIn = <<>>
  /\ codecOut = <<>>
  /\ ClientIdle
  /\ slots = <<>>
  /\ slotWire = <<>>
  /\ srvIn \in [env : [NODE_ENV : NodeEnvValues], err : Errors]
  /\ srvOut = Unused
  /\ valIn = Unused
  /\ valOut = Unused
  /\ uploadIn = Unused
  /\ uploadOut = Unused

\* An error passed to next(err), or thrown by a middleware, reaches the
\* global error handler.
GlobalErrorHandler ==
  /\ srvOut = Unused
  /\ srvOut' = [by |-> "global", response |-> GlobalErrorResponse(srvIn.env, srvIn.err)]
  /\ UNCHANGED <<srvIn, chainVars, aggVars, codecVars, clientVars, pairVars,
                 validatorVars, uploadVars>>

\* An error thrown inside the try block of the route handler of operation o
\* reaches its catch.
RouteCatch(o) ==
  /\ srvOut = Unused
  /\ srvOut' = [ by |-> o,
                 response |-> [status |-> 500, body |-> RouteErrorBody(o, srvIn.err)] ]
  /\ UNCHANGED <<srvIn, chainVars, aggVars, codecVars, clientVars, pairVars,
                 validatorVars, uploadVars>>

NextServer == GlobalErrorHandler \/ \E o \in ClientOps : RouteCatch(o)

SpecServer == InitServer /\ [][NextServer]_vars

\* C25: a response holds stack detail only when NODE_ENV is 'development';
\* otherwise the global error handler answers the generic message and a
\* timestamp, and a route handler the error's message and a timestamp.
C25_NoStackOutsideDebug ==
  srvOut # Unused =>
    LET error == srvOut.response.body.error
        debug == srvIn.env.NODE_ENV = Str(Development)
    IN /\ "stack" \in DOMAIN error => debug
       /\ (srvOut.by = "global" /\ ~ debug) =>
            error = [message |-> "Internal server error", timestamp |-> Now]
       /\ srvOut.by # "global" =>
            error = [message |-> srvIn.err.message, timestamp |-> Now]

C25_Witness ==
  /\ srvOut # Unused
  /\ srvOut.by = "global"
  /\ srvIn.env.NODE_ENV = Undefined
  /\ srvIn.err.stack # Undefined
  /\ srvOut.response.status = 413
  /\ srvOut.response.body.error.message = "Internal server error"

C25_WitnessDebug ==
  /\ srvOut # Unused
  /\ srvOut.by = "global"
  /\ srvIn.env.NODE_ENV = Str(Development)
  /\ srvOut.response.body.error.stack = srvIn.err.stack
  /\ srvIn.err.stack # Undefined

----------------------------------------------------------------------------
(* part_005: validateCreateKeys and validateCreateTask, in front of the
   handlers of POST /api/keys/:projectId and POST /api/tasks/:projectId *)

MaxElements == 2

\* What a middleware does: it sends a response, calls next(), or throws.
Respond(status, message) ==
  [ kind |-> "respond",
    response |-> [ status |-> status,
                   body |-> [error |-> [message |-> message, timestamp |-> Now]] ] ]

CallNext == [kind |-> "next"]

\* Reading a property of null throws a TypeError.
Throw == [ kind |-> "throw",
           error |-> [ message |-> "Cannot read properties of null",
                       stack |-> Str(<<"a", "t", " ", "f", "n">>),
                       status |-> Undefined ] ]

RECURSIVE CheckKeys(_, _)
\* for (let i = 0; i < keys.length; i++) { if (!key.key_name ||
\*   typeof key.key_name !== 'string') return res.status(400)... }
\* from element i (counted from 1) on
CheckKeys(keys, i) ==
  IF i > Len(keys) THEN CallNext
  ELSE IF keys[i].t \in {"null", "undefined"} THEN Throw
  ELSE LET key_name == Get(keys[i], "key_name")
       IN IF ~ Truthy(key_name) \/ key_name.t # "string"
          THEN Respond(400, << "Key at index ", i - 1,
                               " must have a valid key_name string" >>)
          ELSE CheckKeys(keys, i + 1)

validateCreateKeys(body) ==
  LET keys == Get(body, "keys")
  IN IF ~ Truthy(keys) \/ keys.t # "array" \/ Len(keys.v) = 0
     THEN Respond(400, <<"Keys array is required and must contain at least one key">>)
     ELSE CheckKeys(keys.v, 1)

RECURSIVE CheckLanguages(_, _)
\* the loop of validateCreateTask over languages, from element i on
CheckLanguages(languages, i) ==
  IF i > Len(languages) THEN CallNext
  ELSE IF languages[i].t \in {"null", "undefined"} THEN Throw
  ELSE LET language_iso == Get(languages[i], "language_iso")
           users == Get(languages[i], "users")
       IN IF ~ Truthy(language_iso) \/ language_iso.t # "string"
          THEN Respond(400, << "Language at index ", i - 1,
                               " must have a valid language_iso string" >>)
          ELSE IF ~ Truthy(users) \/ users.t # "array" \/ Len(users.v) = 0
          THEN Respond(400, << "Language at index ", i - 1,
                               " must have a users array with at least one user ID" >>)
          ELSE CheckLanguages(languages, i + 1)

validateCreateTask(body) ==
  LET title == Get(body, "title")
      languages == Get(body, "languages")
  IN IF ~ Truthy(title) \/ title.t # "string"
     THEN Respond(400, <<"Title is required and must be a string">>)
     ELSE IF ~ Truthy(languages) \/ languages.t # "array" \/ Len(languages.v) = 0
     THEN Respond(400, <<"Languages array is required and must contain at least one language">>)
     ELSE CheckLanguages(languages.v, 1)

\* The validator of a route.
Validator(route, body) ==
  IF route = "createKeys" THEN validateCreateKeys(body) ELSE validateCreateTask(body)

\* An object with the given field, or without it when the value is absent.
WithField(o, k, v) == IF v = Undefined THEN o ELSE Obj(Put(o.v, k, v))

\* Elements of a keys list: a key, an empty name, no name, a number or null
\* for a name, null, and a string in place of an object.
KeyElements ==
  { Obj("key_name" :> Str(KA)), Obj("key_name" :> Str(<<>>)),
    Obj("description" :> Str(KB)), Obj("key_name" :> Num(5)),
    Obj("key_name" :> Null), Null, Str(KA) }

Users == Arr(<<Num(1)>>)

\* Elements of a languages list.
LanguageElements ==
  { Obj(("language_iso" :> Str(FR)) @@ ("users" :> Users)),
    Obj("users" :> Users),
    Obj(("language_iso" :> Str(<<>>)) @@ ("users" :> Users)),
    Obj("language_iso" :> Str(FR)),
    Obj(("language_iso" :> Str(FR)) @@ ("users" :> Arr(<<>>))),
    Obj(("language_iso" :> Str(FR)) @@ ("users" :> Str(<<"1">>))),
    Null }

\* A list field: absent, null, a string, or a list of up to MaxElements
\* elements.
ListValues(elements) ==
  {Undefined, Null, Str(<<"x">>)} \cup { Arr(s) : s \in SeqsUpTo(elements, MaxElements) }

CreateKeysBodies ==
  { WithField(Obj(EmptyObject), "keys", keys) : keys \in ListValues(KeyElements) }

CreateTaskBodies ==
  { WithField(WithField(Obj(EmptyObject), "title", title), "languages", languages) :
      title \in {Undefined, Str(<<>>), Str(<<"T">>), Num(1)},
      languages \in ListValues(LanguageElements) }

ValidatorInputs ==
  { [route |-> "createKeys", body |-> b, env |-> [NODE_ENV |-> Undefined]] :
      b \in CreateKeysBodies }
    \cup { [route |-> "createTask", body |-> b, env |-> [NODE_ENV |-> Undefined]] :
             b \in CreateTaskBodies }

InitValidate ==
  /\ env = NoEnv
  /\ req = NoRequest
  /\ pc = "idle"
  /\ res = NoResponse
  /\ sent = 0
  /\ ran = {}
  /\ upstreamLog = <<>>
  /\ aggIn = NoAggInput
  /\ aggOut = NotCalled
  /\ codecIn = <<>>
  /\ codecOut = <<>>
  /\ ClientIdle
  /\ slots = <<>>
  /\ slotWire = <<>>
  /\ srvIn = Unused
  /\ srvOut = Unused
  /\ valIn \in ValidatorInputs
  /\ valOut = [pc |-> "validator", response |-> NoResponse, upstream |-> <<>>]
  /\ uploadIn = Unused
  /\ uploadOut = Unused

\* The validator runs: it answers 400, passes control to the handler, or
\* throws, and then the global error handler answers.
Validate ==
  /\ valOut.pc = "validator"
  /\ LET outcome == Validator(valIn.route, valIn.body)
     IN valOut' =
          CASE outcome.kind = "respond" ->
                 [valOut EXCEPT !.pc = "done", !.response = outcome.response]
            [] outcome.kind = "next" -> [valOut EXCEPT !.pc = "handler"]
            [] outcome.kind = "throw" ->
                 [ valOut EXCEPT
                     !.pc = "done",
                     !.response = GlobalErrorResponse(valIn.env, outcome.error) ]
  /\ UNCHANGED <<valIn, chainVars, aggVars, codecVars, clientVars, pairVars,
                 serverVars, uploadVars>>

\* The handler up to its await: createKeys or createTask issues its one
\* upstream write.
ValidatedHandler ==
  /\ valOut.pc = "handler"
  /\ valOut' = [ valOut EXCEPT
                   !.pc = "awaitUpstream",
                   !.upstream = requestFetches(T1, OpRequests(valIn.route)[1].path,
                                               OpRequests(valIn.route)[1].config) ]
  /\ UNCHANGED <<valIn, chainVars, aggVars, codecVars, clientVars, pairVars,
                 serverVars, uploadVars>>

\* Upstream answers and the handler responds.
ValidatedAnswer(response) ==
  /\ valOut.pc = "awaitUpstream"
  /\ valOut' = [ valOut EXCEPT
                   !.pc = "done",
                   !.response = RouteResponse(valIn.route, requestSettle(response)) ]
  /\ UNCHANGED <<valIn, chainVars, aggVars, codecVars, clientVars, pairVars,
                 serverVars, uploadVars>>

NextValidate ==
  \/ Validate
  \/ ValidatedHandler
  \/ \E response \in PairAnswers : ValidatedAnswer(response)

SpecValidate == InitValidate /\ [][NextValidate]_vars

----------------------------------------------------------------------------
(* Properties of the create validators *)

\* The field is a non-empty string.
NonEmptyString(v) == v.t = "string" /\ v.v # <<>>

\* The field is a non-empty list.
NonEmptyList(v) == v.t = "array" /\ v.v # <<>>

\* Element x of a list lacks field k as a non-empty string.
LacksString(x, k) ==
  ~ (x.t = "record" /\ k \in DOMAIN x.v /\ NonEmptyString(x.v[k]))

\* Element x of a list lacks field k as a non-empty list.
LacksList(x, k) ==
  ~ (x.t = "record" /\ k \in DOMAIN x.v /\ NonEmptyList(x.v[k]))

\* The field of the body, or undefined.
Field(body, k) == IF k \in DOMAIN body.v THEN body.v[k] ELSE Undefined

\* The positions of the offending elements of the list the route validates.
Offenders(in) ==
  IF in.route = "createKeys"
  THEN LET keys == Field(in.body, "keys")
       IN IF NonEmptyList(keys)
          THEN { i \in DOMAIN keys.v : LacksString(keys.v[i], "key_name") }
          ELSE {}
  ELSE LET languages == Field(in.body, "languages")
       IN IF NonEmptyList(languages)
          THEN { i \in DOMAIN languages.v :
                   LacksString(languages.v[i], "language_iso")
                     \/ LacksList(languages.v[i], "users") }
          ELSE {}

\* The body is one C26 says is rejected.
Malformed(in) ==
  IF in.route = "createKeys"
  THEN ~ NonEmptyList(Field(in.body, "keys")) \/ Offenders(in) # {}
  ELSE \/ ~ NonEmptyString(Field(in.body, "title"))
       \/ ~ NonEmptyList(Field(in.body, "languages"))
       \/ Offenders(in) # {}

Min(S) == CHOOSE x \in S : \A y \in S : x <= y

\* C26: a malformed create-keys or create-task body is answered 400, the
\* message naming the index of the first offending element when there is
\* one, and no upstream call is made for it.
C26_MalformedCreateRejected ==
  (valOut # Unused /\ Malformed(valIn)) =>
    /\ valOut.upstream = <<>>
    /\ valOut.pc \in {"validator", "done"}
    /\ valOut.pc = "done" =>
         /\ valOut.response.status = 400
         /\ (Offenders(valIn) # {}
               /\ (valIn.route = "createTask"
                     => NonEmptyString(Field(valIn.body, "title")))) =>
              valOut.response.body.error.message[2] = Min(Offenders(valIn)) - 1

----------------------------------------------------------------------------
(* lokalise-client.ts uploadFile behind validateUploadFile and the handler
   of POST /api/files/:projectId/upload *)

Bool(b) == [t |-> "boolean", v |-> b]

\* JSON.stringify of an object: its members, those whose value is undefined
\* left out.
JsonStringify(o) ==
  [t |-> "json", members |-> { <<k, o[k]>> : k \in { x \in DOMAIN o : o[x] # Undefined } }]

\* JSON.parse of a serialized object, as the upstream service reads it.
JsonParse(text) ==
  [ k \in { m[1] : m \in text.members } |->
      (CHOOSE m \in text.members : m[1] = k)[2] ]

\* A variant that builds the payload from the three required fields only.
uploadPayloadRequiredOnly(data) ==
  [ x \in {"data", "filename", "lang_iso"} |->
      IF x = "data" THEN Str(Normalize(Get(data, "data").v)) ELSE Get(data, x) ]

\* const uploadPayload = { ...data, data: base64Data }
uploadPayload(data) ==
  Put(Spread(data), "data", Str(Normalize(Get(data, "data").v)))

\* The fetch of uploadFile: request spreads the config, so the body goes
\* out as given.
uploadFileFetch(apiToken, data, projectId) ==
  LET config == [ method |-> "POST", headers |-> Undefined,
                  body |-> JsonStringify(uploadPayload(data)) ]
  IN Fetch(apiToken, <<"projects/", projectId, "/files/upload">>, config)
       @@ [body |-> config.body]

validateUploadFile(body) ==
  LET data == Get(body, "data")
      filename == Get(body, "filename")
      lang_iso == Get(body, "lang_iso")
  IN IF ~ Truthy(data) \/ data.t # "string"
     THEN Respond(400, <<"File data is required and must be a string">>)
     ELSE IF ~ Truthy(filename) \/ filename.t # "string"
     THEN Respond(400, <<"Filename is required and must be a string">>)
     ELSE IF ~ Truthy(lang_iso) \/ lang_iso.t # "string"
     THEN Respond(400, <<"Language ISO code (lang_iso) is required and must be a string">>)
     ELSE CallNext

\* File contents: absent, empty, a JSON text, the documented base64 text
\* (shorter than the threshold), and a base64 text longer than the threshold.
UploadData ==
  { Undefined, Str(<<>>), Str(<<"{", "}">>), Str(DocumentedData),
    Str(Repeat("A", Threshold + 4)) }

\* The optional fields of UploadFileRequest a body may carry.
UploadOptions ==
  [ convert_placeholders : {Undefined, Bool(TRUE)},
    detect_icu_plurals : {Undefined, Bool(FALSE)},
    cleanup_mode : {Undefined, Bool(TRUE)},
    projectId : {Undefined, Str(<<"p", "1">>)} ]

UploadBodies ==
  { LET required == WithField(WithField(WithField(Obj(EmptyObject), "data", data),
                                        "filename", filename), "lang_iso", lang_iso)
    IN WithField(WithField(WithField(WithField(required,
         "convert_placeholders", o.convert_placeholders),
         "detect_icu_plurals", o.detect_icu_plurals),
         "cleanup_mode", o.cleanup_mode),
         "projectId", o.projectId) :
      data \in UploadData,
      filename \in {Undefined, Str(<<"f", ".", "j", "s", "o", "n">>)},
      lang_iso \in {Num(1), Str(FR)},
      o \in UploadOptions }

InitUpload ==
  /\ env = NoEnv
  /\ req = NoRequest
  /\ pc = "idle"
  /\ res = NoResponse
  /\ sent = 0
  /\ ran = {}
  /\ upstreamLog = <<>>
  /\ aggIn = NoAggInput
  /\ aggOut = NotCalled
  /\ codecIn = <<>>
  /\ codecOut = <<>>
  /\ ClientIdle
  /\ slots = <<>>
  /\ slotWire = <<>>
  /\ srvIn = Unused
  /\ srvOut = Unused
  /\ valIn = Unused
  /\ valOut = Unused
  /\ uploadIn \in UploadBodies
  /\ uploadOut = [pc |-> "validator", response |-> NoResponse, upstream |-> <<>>]

\* validateUploadFile answers 400 or passes the request on.
UploadValidate ==
  /\ uploadOut.pc = "validator"
  /\ LET outcome == validateUploadFile(uploadIn)
     IN uploadOut' =
          IF outcome.kind = "respond"
          THEN [uploadOut EXCEPT !.pc = "done", !.response = outcome.response]
          ELSE [uploadOut EXCEPT !.pc = "handler"]
  /\ UNCHANGED <<uploadIn, chainVars, aggVars, codecVars, clientVars, pairVars,
                 serverVars, validatorVars>>

\* The handler passes req.body to uploadFile, which sends the payload.
UploadHandler ==
  /\ uploadOut.pc = "handler"
  /\ uploadOut' = [ uploadOut EXCEPT
                      !.pc = "awaitUpstream",
                      !.upstream = <<uploadFileFetch(T1, uploadIn, "p1")>> ]
  /\ UNCHANGED <<uploadIn, chainVars, aggVars, codecVars, clientVars, pairVars,
                 serverVars, validatorVars>>

\* Upstream answers and the handler responds.
UploadAnswer(response) ==
  /\ uploadOut.pc = "awaitUpstream"
  /\ uploadOut' = [ uploadOut EXCEPT
                      !.pc = "done",
                      !.response = RouteResponse("uploadFile", requestSettle(response)) ]
  /\ UNCHANGED <<uploadIn, chainVars, aggVars, codecVars, clientVars, pairVars,
                 serverVars, validatorVars>>

NextUpload ==
  \/ UploadValidate
  \/ UploadHandler
  \/ \E response \in PairAnswers : UploadAnswer(response)

SpecUpload == InitUpload /\ [][NextUpload]_vars

----------------------------------------------------------------------------
(* Properties of the upload payload *)

\* The payload the upstream service reads from the one request sent.
SentPayload == JsonParse(uploadOut.upstream[1].body)

\* C27: the payload sent upstream has exactly the fields of the inbound
\* upload request; every field but data has the inbound value, and data is
\* the normalized form of the inbound data.
C27_PayloadForwarded ==
  (uploadOut # Unused /\ uploadOut.upstream # <<>>) =>
    /\ Len(uploadOut.upstream) = 1
    /\ DOMAIN SentPayload = DOMAIN uploadIn.v
    /\ \A k \in DOMAIN uploadIn.v \ {"data"} : SentPayload[k] = uploadIn.v[k]
    /\ SentPayload["data"].t = "string"
    /\ SentPayload["data"].v =
         IF LooksEncoded(uploadIn.v["data"].v)
         THEN uploadIn.v["data"].v
         ELSE ToBase64(Utf8(uploadIn.v["data"].v))

\* An upload with optional fields whose data had to be encoded was sent.
C27_Witness ==
  /\ uploadOut # Unused
  /\ uploadOut.upstream # <<>>
  /\ {"convert_placeholders", "projectId"} \subseteq DOMAIN uploadIn.v
  /\ SentPayload["data"] # uploadIn.v["data"]

\* An upload whose data was already encoded was sent as it came.
C27_WitnessAsIs ==
  /\ uploadOut # Unused
  /\ uploadOut.upstream # <<>>
  /\ "detect_icu_plurals" \in DOMAIN uploadIn.v
  /\ SentPayload = uploadIn.v

----------------------------------------------------------------------------
(* The aggregation on upstream answers of any shape *)

\* A translation whose text is the number 5.
NumberTranslation(locale) ==
  [language_iso |-> locale, translation |-> <<"5">>, typeof |-> "number"]

\* Key records, well-formed and not: null, a null key_name, a null
\* translation, a text that is not a string for a requested and for an
\* unrequested locale, after a translation that was stored.
AnyKeys ==
  { Key(Str(KA), Arr(<<Translation(FR, X)>>)),
    Key(Str(KB), Undefined),
    Null,
    Key(Null, Arr(<<Translation(FR, X)>>)),
    Key(Str(KB), Arr(<<Translation(FR, Y), Null>>)),
    Key(Str(KB), Arr(<<Translation(DE, Y), NumberTranslation(FR)>>)),
    Key(Str(KB), Arr(<<NumberTranslation(ES)>>)) }

\* Upstream outcomes: a failure, a null body, keys missing, keys that are a
\* string, a number or an empty string, and lists of key records.
AnyOutcomes ==
  { Failure(500), Failure(404),
    [ok |-> TRUE, status |-> 200, body |-> Null],
    Success(Undefined), Success(Null), Success(Str(<<"a", "b">>)),
    Success(Str(<<>>)), Success(Num(5)) }
    \cup { Success(Arr(ks)) : ks \in SeqsUpTo(AnyKeys, MaxKeys) }

AnyInputs == [targetLocales : {<<FR>>, <<FR, DE>>}, outcome : AnyOutcomes]

InitAggAny ==
  /\ env = NoEnv
  /\ req = NoRequest
  /\ pc = "idle"
  /\ res = NoResponse
  /\ sent = 0
  /\ ran = {}
  /\ upstreamLog = <<>>
  /\ aggIn \in AnyInputs
  /\ aggOut = NotCalled
  /\ codecIn = <<>>
  /\ codecOut = <<>>
  /\ ClientIdle
  /\ RestIdle

SpecAggAny == InitAggAny /\ [][NextAgg]_vars

----------------------------------------------------------------------------
(* Properties of the aggregation on answers of any shape *)

\* The upstream answer carries a list of key records one of which makes the
\* processing throw.
ThrowsPartWay ==
  /\ aggIn.outcome.ok
  /\ aggIn.outcome.body # Null
  /\ aggIn.outcome.body.keys.t = "array"
  /\ \E i \in DOMAIN aggIn.outcome.body.keys.v :
       KeyThrows(aggIn.outcome.body.keys.v[i], aggIn.targetLocales)

\* C28: getTranslationsFromKeys never raises, whatever the upstream outcome
\* and the shape of the key records; when a record makes the processing
\* throw part-way, the empty map is returned, not the map built so far.
C28_NeverRaises ==
  aggOut.called =>
    /\ ~ aggOut.threw
    /\ (~ aggIn.outcome.ok \/ ThrowsPartWay) => aggOut.value = EmptyObject

\* The call returned after a record threw when a translation of an earlier
\* record had already been stored.
C28_Witness ==
  /\ aggOut.called
  /\ ThrowsPartWay
  /\ \E l \in DOMAIN PartialMap(aggIn.targetLocales, aggIn.outcome.body.keys.v) :
       PartialMap(aggIn.targetLocales, aggIn.outcome.body.keys.v)[l] # EmptyObject

\* The call returned after the upstream call failed.
C28_WitnessFailure ==
  /\ aggOut.called
  /\ ~ aggIn.outcome.ok

----------------------------------------------------------------------------
(* The two copies of validateLokaliseToken: middleware/auth.ts and part_004 *)

\* What a copy does with the credential it resolved: it answers 401, or it
\* attaches the client and the project and calls next().
AuthOutcome(r, apiToken, projectId) ==
  IF ~ Truthy(apiToken)
  THEN [next |-> FALSE, response |-> MissingTokenResponse, req |-> r]
  ELSE [ next |-> TRUE, response |-> NoResponse,
         req |-> [ r EXCEPT
                     !.lokaliseClient = LokaliseClient(apiToken.v),
                     !.projektId = IF Truthy(projectId) THEN projectId ELSE @ ] ]

\* auth.ts: validateLokaliseToken
validateLokaliseToken(r, e) ==
  AuthOutcome(r, ResolveApiToken(r, e), AttachProjectId(r, e))

\* part_004: validateLokaliseToken, which reads x-api-token and
\* lokalise-api-token before the Authorization header.
validateLokaliseTokenPart004(r, e) ==
  LET authHeader == r.headers.authorization
      bearer == IF Truthy(authHeader) /\ StartsWith(authHeader.v, BearerPrefix)
                THEN Str(Slice(authHeader.v, 7)) ELSE Null
      apiToken == Or(Or(Or(r.headers.xApiToken, r.headers.lokaliseApiToken), bearer),
                     e.LOKALISE_API_TOKEN)
  IN AuthOutcome(r, apiToken, AttachProjectId(r, e))

\* C29: on every request the two copies of validateLokaliseToken do the
\* same: the same response or the same client and project attached.
C29_CopiesEquivalent ==
  pc = "validateLokaliseToken" =>
    validateLokaliseToken(req, env) = validateLokaliseTokenPart004(req, env)

----------------------------------------------------------------------------
(* One response per request *)

\* A step of the server on the request under way.
Serve ==
  \/ ValidateLokaliseToken
  \/ RequireProjectId
  \/ ValidateGetTranslations
  \/ Handler
  \/ UpstreamResponds

\* The server started without LOKALISE_API_TOKEN and LOKALISE_PROJECT_ID, so
\* that every stage can reject a request as well as pass it on.
InitFair == Init /\ env = NoEnv

\* Express runs a stage as soon as control reaches it, and the await of the
\* handler ends: fetch settles with an answer or a network error.
SpecFair == InitFair /\ [][Next]_vars /\ WF_vars(Serve)

\* The positions of a request inside its chain.
Stages ==
  { "validateLokaliseToken", "requireProjectId", "validateGetTranslations",
    "handler", "awaitUpstream" }

\* While the chain runs nothing has been sent; once it has stopped exactly
\* one response has been.
OneResponse ==
  /\ pc \in Stages => sent = 0 /\ res = NoResponse
  /\ pc = "done" => sent = 1 /\ res # NoResponse

\* A step of a stage sends one response and stops the chain, or sends none
\* and passes control on.
RespondsOrPasses ==
  pc \in Stages =>
    \/ sent' = sent + 1 /\ pc' = "done"
    \/ sent' = sent /\ pc' \in Stages \ {pc}

\* C30: a request that enters the chain receives exactly one response: every
\* stage either sends one response and stops the chain or passes control on
\* without sending, and the chain ends with one response sent.
C30_ExactlyOneResponse ==
  /\ [] OneResponse
  /\ [][RespondsOrPasses]_vars
  /\ (pc = "validateLokaliseToken") ~> (pc = "done" /\ sent = 1)

\* The handler has answered after its upstream call, every stage having
\* passed control on.
C30_Witness ==
  /\ pc = "done"
  /\ sent = 1
  /\ ran = { "validateLokaliseToken", "requireProjectId",
             "validateGetTranslations", "handler" }
  /\ upstreamLog # <<>>

\* A stage has answered and stopped the chain before the handler.
C30_WitnessStopped ==
  /\ pc = "done"
  /\ sent = 1
  /\ "handler" \notin ran

============================================================================
